---- MODULE Spec2Model ----
(***************************************************************************)
(* State-machine model of src/src/devices/ubisys.ts:                       *)
(*   - ubisys.tz.configure_j1 (convertSet / convertGet), the calibration   *)
(*     sequence of the J1 window-covering actuator, one step per await;    *)
(*   - ubisys.tz.configure_device_setup.convertSet, the input-action       *)
(*     template loop.                                                      *)
(* Positions of the async functions are source line numbers.               *)
(***************************************************************************)
EXTENDS Integers, Sequences, FiniteSets, TLC

VARIABLES
    entry,      \* per session: "none", "convertSet" or "convertGet"
    value,      \* per session: the request object (a function on its keys)
    status,     \* per session: "idle", "running", "returned", "threw"
    pc,         \* per session: <<line, sub>>, the await the session is at
    mode,       \* per session: local `mode` of convertSet (line 160)
    ops,        \* transport operations and sleeps, in the order issued
    devMode,    \* the device's windowCoveringMode attribute
    polls,      \* non-zero operationalStatus answers given so far
    cmodel,     \* meta.mapped.model of a configure_device_setup call
    templates,  \* templates the loop has consumed so far
    cstatus,    \* "idle", "start", "loop", "written", "error"
    thrown,     \* <<>> or the error thrown by the template loop
    input,      \* compiler cursor: `input` (line 519)
    endpoint,   \* compiler cursor: `endpoint` (line 522)
    groupId,    \* compiler cursor: `groupId` (line 524)
    inputActions,  \* `inputActions` of the last iteration (line 550)
    resultingInputActions,  \* line 527
    earlier,    \* whether an earlier invocation of the template loop has ended
    svalue,     \* the request object of a configure_device_setup call
    softwareBuildID,  \* meta.device.softwareBuildID
    spos,       \* the await a configure_device_setup call is at
    sops,       \* transport operations of devMgmtEp, in the order issued
    state,      \* meta.state.configure_device_setup, as last published
    reports     \* the messages fz.configure_device_setup has converted

j1vars == <<entry, value, status, pc, mode, ops, devMode, polls>>
setupvars == <<svalue, softwareBuildID, spos, sops>>
fzvars == <<state, reports>>
tplvars == <<cmodel, templates, cstatus, thrown, input, endpoint, groupId,
             inputActions, resultingInputActions, earlier,
             svalue, softwareBuildID, spos, sops>>
vars == <<entry, value, status, pc, mode, ops, devMode, polls,
          cmodel, templates, cstatus, thrown, input, endpoint, groupId,
          inputActions, resultingInputActions, earlier,
          svalue, softwareBuildID, spos, sops, state, reports>>

----------------------------------------------------------------------------
(* Bounds *)

\* most keys a request object carries
MaxKeys == 2
\* most non-zero operationalStatus answers the actuator gives in one session
MaxPolls == 1
\* most templates in one input_action_templates list
MaxTemplates == 2

Sessions == {1, 2}

\* windowCoveringMode values: bit 0 (reversed) and bit 1 (calibration mode)
ModeValues == 0..3
\* operationalStatus values: 0 is "not moving"
MovingValues == {1}

----------------------------------------------------------------------------
(* Bit operations on small non-negative integers *)

\* x & mask for a one-bit mask, as a truth value (line 162)
HasBit(x, mask) == (x \div mask) % 2 = 1
\* x & ~mask for a one-bit mask (lines 163, 245)
ClearBit(x, mask) == IF HasBit(x, mask) THEN x - mask ELSE x
\* x | mask for a one-bit mask (line 197)
SetBit(x, mask) == IF HasBit(x, mask) THEN x ELSE x + mask

modeCalibrationBitMask == 2

----------------------------------------------------------------------------
(* The request object of configure_j1.convertSet *)

Has(v, k) == k \in DOMAIN v

\* key computed at line 141 for the attribute name "ubisysTotalSteps":
\* "ubisysTotalSteps".substring(6, 1).toLowerCase is the function object, and
\* function + string concatenates the function's source text
MangledTotalSteps == "function toLowerCase() { [native code] }otalSteps"

\* keys a request may carry (the names the converter and its callers use)
RequestKeys ==
    {"calibrate", "steps_per_second",
     "windowCoveringType", "configStatus", "windowCoveringMode",
     "installedOpenLimitLiftCm", "installedClosedLimitLiftCm",
     "installedOpenLimitTiltDdegree", "installedClosedLimitTiltDdegree",
     "ubisysTurnaroundGuardTime", "ubisysLiftToTiltTransitionSteps",
     "ubisysTotalSteps", "ubisysLiftToTiltTransitionSteps2", "ubisysTotalSteps2",
     "ubisysAdditionalSteps", "ubisysInactivePowerThreshold", "ubisysStartupSteps",
     "open_to_closed_s", "closed_to_open_s", "lift_to_tilt_transition_ms",
     MangledTotalSteps}

\* values a request gives a key; steps_per_second is a positive number, and
\* lift_to_tilt_transition_ms is chosen so that ms * stepsPerSecond is a
\* multiple of 1000 for every steps_per_second below
KeyValues(k) ==
    CASE k = "calibrate" -> {TRUE, FALSE}
      [] k = "steps_per_second" -> {20, 50}
      [] k = "windowCoveringMode" -> ModeValues
      [] k = "windowCoveringType" -> {8}
      [] k = "configStatus" -> {3}
      [] k = "installedOpenLimitLiftCm" -> {50}
      [] k = "installedClosedLimitLiftCm" -> {200}
      [] k = "installedOpenLimitTiltDdegree" -> {10}
      [] k = "installedClosedLimitTiltDdegree" -> {800}
      [] k = "ubisysTurnaroundGuardTime" -> {5}
      [] k = "ubisysLiftToTiltTransitionSteps" -> {60}
      [] k = "ubisysTotalSteps" -> {100}
      [] k = "ubisysLiftToTiltTransitionSteps2" -> {61}
      [] k = "ubisysTotalSteps2" -> {101}
      [] k = "ubisysAdditionalSteps" -> {2}
      [] k = "ubisysInactivePowerThreshold" -> {4096}
      [] k = "ubisysStartupSteps" -> {7}
      [] k = "open_to_closed_s" -> {10}
      [] k = "closed_to_open_s" -> {12}
      [] k = "lift_to_tilt_transition_ms" -> {100}
      [] OTHER -> {777}

RECURSIVE SubsetsUpTo(_, _)
SubsetsUpTo(S, n) ==
    IF n = 0 THEN {{}}
    ELSE LET smaller == SubsetsUpTo(S, n - 1)
         IN smaller \cup {T \cup {x} : T \in smaller, x \in S}

EmptyRequest == [k \in {} |-> 0]

RECURSIVE RequestsOn(_)
RequestsOn(S) ==
    IF S = {} THEN {EmptyRequest}
    ELSE LET k == CHOOSE x \in S : TRUE
         IN {(k :> x) @@ f : f \in RequestsOn(S \ {k}), x \in KeyValues(k)}

Requests == UNION {RequestsOn(S) : S \in SubsetsUpTo(RequestKeys, MaxKeys)}

\* lines 138-142: the key looked up in the request for a call
\* writeAttrFromJson(attr, jsonAttr): jsonAttr defaults to attr, and a
\* jsonAttr starting with "ubisys" is replaced by
\* jsonAttr.substring(6, 1).toLowerCase + jsonAttr.substring(7)
JsonAttr(attr, jsonAttr) ==
    LET j == IF jsonAttr = "" THEN attr ELSE jsonAttr
    IN CASE j = "ubisysTurnaroundGuardTime" -> "function toLowerCase() { [native code] }urnaroundGuardTime"
         [] j = "ubisysLiftToTiltTransitionSteps" -> "function toLowerCase() { [native code] }iftToTiltTransitionSteps"
         [] j = "ubisysTotalSteps" -> "function toLowerCase() { [native code] }otalSteps"
         [] j = "ubisysLiftToTiltTransitionSteps2" -> "function toLowerCase() { [native code] }iftToTiltTransitionSteps2"
         [] j = "ubisysTotalSteps2" -> "function toLowerCase() { [native code] }otalSteps2"
         [] j = "ubisysAdditionalSteps" -> "function toLowerCase() { [native code] }dditionalSteps"
         [] j = "ubisysInactivePowerThreshold" -> "function toLowerCase() { [native code] }nactivePowerThreshold"
         [] j = "ubisysStartupSteps" -> "function toLowerCase() { [native code] }tartupSteps"
         [] OTHER -> j

----------------------------------------------------------------------------
(* configure_j1.convertSet: locals computed on entry *)

defaultStepsPerSecond == 50

\* variant: the supplied steps_per_second is ignored
stepsPerSecondDefaultOnly(v) == defaultStepsPerSecond

\* line 156: value.steps_per_second || 50
stepsPerSecond(v) ==
    IF Has(v, "steps_per_second") /\ v["steps_per_second"] # 0
    THEN v["steps_per_second"] ELSE defaultStepsPerSecond

\* variant: the learning sequence runs only for a truthy `calibrate`
hasCalibrateTruthy(v) == Has(v, "calibrate") /\ v["calibrate"] = TRUE

\* line 157: value.calibrate != null
hasCalibrate(v) == Has(v, "calibrate")

\* lines 229-230: (s) => s * stepsPerSecond
SecondsToSteps(x, sps) == x * sps

\* lines 234, 239: (s) => (s * stepsPerSecond) / 1000; the requests above keep
\* the product a multiple of 1000, where the quotient is exact
MillisecondsToSteps(x, sps) == (x * sps) \div 1000

\* line 146: converterFunc(attrValue)
Convert(conv, x, sps) ==
    CASE conv = "s" -> SecondsToSteps(x, sps)
      [] conv = "ms" -> MillisecondsToSteps(x, sps)
      [] OTHER -> x

\* the calls of writeAttrFromJson, by line: attribute, jsonAttr ("" when the
\* argument is omitted), converter, delaySecondsAfter (0 when omitted)
Call(a, j, c, d) == [attr |-> a, jsonAttr |-> j, conv |-> c, delay |-> d]

WriteAttrCalls ==
    (167 :> Call("windowCoveringType", "", "", 2)) @@
    (168 :> Call("configStatus", "", "", 2)) @@
    (170 :> Call("windowCoveringMode", "", "", 2)) @@
    (216 :> Call("installedOpenLimitLiftCm", "", "", 0)) @@
    (217 :> Call("installedClosedLimitLiftCm", "", "", 0)) @@
    (218 :> Call("installedOpenLimitTiltDdegree", "", "", 0)) @@
    (219 :> Call("installedClosedLimitTiltDdegree", "", "", 0)) @@
    (220 :> Call("ubisysTurnaroundGuardTime", "", "", 0)) @@
    (221 :> Call("ubisysLiftToTiltTransitionSteps", "", "", 0)) @@
    (222 :> Call("ubisysTotalSteps", "", "", 0)) @@
    (223 :> Call("ubisysLiftToTiltTransitionSteps2", "", "", 0)) @@
    (224 :> Call("ubisysTotalSteps2", "", "", 0)) @@
    (225 :> Call("ubisysAdditionalSteps", "", "", 0)) @@
    (226 :> Call("ubisysInactivePowerThreshold", "", "", 0)) @@
    (227 :> Call("ubisysStartupSteps", "", "", 0)) @@
    (229 :> Call("ubisysTotalSteps", "open_to_closed_s", "s", 0)) @@
    (230 :> Call("ubisysTotalSteps2", "closed_to_open_s", "s", 0)) @@
    (231 :> Call("ubisysLiftToTiltTransitionSteps", "lift_to_tilt_transition_ms", "ms", 0)) @@
    (236 :> Call("ubisysLiftToTiltTransitionSteps2", "lift_to_tilt_transition_ms", "ms", 0))

CallLines == DOMAIN WriteAttrCalls

\* line 143: value[jsonAttr] !== undefined
CallWrites(v, line) ==
    Has(v, JsonAttr(WriteAttrCalls[line].attr, WriteAttrCalls[line].jsonAttr))

\* lines 144-149: the attributes object the call writes
CallAttributes(v, line) ==
    LET c == WriteAttrCalls[line]
    IN c.attr :> Convert(c.conv, v[JsonAttr(c.attr, c.jsonAttr)], stepsPerSecond(v))

\* writeAttrFromJson has no return statement: its promise resolves to
\* undefined, which the test at line 170 reads as false
WriteAttrFromJsonResult == FALSE

\* lines 170-172: mode after the windowCoveringMode call
AdoptMode(v, m) ==
    IF WriteAttrFromJsonResult THEN v["windowCoveringMode"] ELSE m

\* the sleepSeconds statements of convertSet, by line
SleepLines ==
    (164 :> 2) @@ (196 :> 2) @@ (198 :> 2) @@ (202 :> 5) @@ (204 :> 2) @@
    (244 :> 2) @@ (246 :> 2)

\* variant: the last two movements are exchanged
CommandLinesSwapped ==
    (177 :> "upOpen") @@ (201 :> "downClose") @@ (203 :> "stop") @@
    (206 :> "upOpen") @@ (209 :> "upOpen") @@ (212 :> "downClose")

\* the entity.command statements, by line
CommandLines ==
    (177 :> "upOpen") @@ (201 :> "downClose") @@ (203 :> "stop") @@
    (206 :> "upOpen") @@ (209 :> "downClose") @@ (212 :> "upOpen")

\* the calls of waitUntilStopped
WaitLines == {178, 207, 210, 213}

\* the windowCoveringMode writes of convertSet
ModeWriteLines == {163, 197, 245}

\* variant: the cancelling write clears every bit of the mode
CancelModeZero(m) == 0

\* variant: the cancelling write sends the mode as read
CancelModeAsRead(m) == m

\* variant: the enabling write sends the mode as read
EnableModeAsRead(m) == m

\* line 163: mode & ~modeCalibrationBitMask
CancelMode(m) == ClearBit(m, modeCalibrationBitMask)
\* line 197: mode | modeCalibrationBitMask
EnableMode(m) == SetBit(m, modeCalibrationBitMask)
\* variant: the finalizing write sends the mode as read
FinalizeModeAsRead(m) == m
\* variant: the finalizing write repeats the enabling one
FinalizeModeAsEnable(m) == SetBit(m, modeCalibrationBitMask)

\* line 245: mode & ~modeCalibrationBitMask
FinalizeMode(m) == ClearBit(m, modeCalibrationBitMask)

ModeWritten(line, m) ==
    CASE line = 163 -> CancelMode(m)
      [] line = 197 -> EnableMode(m)
      [] OTHER -> FinalizeMode(m)

\* lines 181-194: the attributes reset before calibration
ResetAttributes ==
    [installedOpenLimitLiftCm |-> 0,
     installedClosedLimitLiftCm |-> 240,
     installedOpenLimitTiltDdegree |-> 0,
     installedClosedLimitTiltDdegree |-> 900,
     ubisysLiftToTiltTransitionSteps |-> 65535,
     ubisysTotalSteps |-> 65535,
     ubisysLiftToTiltTransitionSteps2 |-> 65535,
     ubisysTotalSteps2 |-> 65535]

\* convertGet: the three reads, by line
ConvertGetReads ==
    (257 :> <<"windowCoveringType", "physicalClosedLimitLiftCm",
              "physicalClosedLimitTiltDdegree", "installedOpenLimitLiftCm",
              "installedClosedLimitLiftCm", "installedOpenLimitTiltDdegree",
              "installedClosedLimitTiltDdegree">>) @@
    (268 :> <<"configStatus", "windowCoveringMode",
              "currentPositionLiftPercentage", "currentPositionLiftCm",
              "currentPositionTiltPercentage", "currentPositionTiltDdegree",
              "operationalStatus">>) @@
    (279 :> <<"ubisysTurnaroundGuardTime", "ubisysLiftToTiltTransitionSteps",
              "ubisysTotalSteps", "ubisysLiftToTiltTransitionSteps2",
              "ubisysTotalSteps2", "ubisysAdditionalSteps",
              "ubisysInactivePowerThreshold", "ubisysStartupSteps">>)

----------------------------------------------------------------------------
(* Control flow of configure_j1.convertSet / convertGet *)

\* variant: the convenience calls of lines 229-236 stand before the plain
\* calls of lines 216-227
ProgramLinesConvenienceFirst ==
    <<160, 163, 164, 167, 168, 170,
      177, 178, 181, 196, 197, 198, 201, 202, 203, 204, 206, 207, 209, 210, 212, 213,
      229, 230, 231, 236, 216, 217, 218, 219, 220, 221, 222, 223, 224, 225, 226, 227,
      244, 245, 246, 257, 268, 279>>

\* the awaited statements, in program order
ProgramLines ==
    <<160, 163, 164, 167, 168, 170,
      177, 178, 181, 196, 197, 198, 201, 202, 203, 204, 206, 207, 209, 210, 212, 213,
      216, 217, 218, 219, 220, 221, 222, 223, 224, 225, 226, 227, 229, 230, 231, 236,
      244, 245, 246, 257, 268, 279>>

IndexOf(line) == CHOOSE i \in 1..Len(ProgramLines) : ProgramLines[i] = line

\* variant: the read-back call stands after the if of line 241, not inside it
ExecutesReadBackAlways(e, v, m, line) ==
    IF e = "convertGet" THEN line \in DOMAIN ConvertGetReads
    ELSE CASE line \in {163, 164} -> HasBit(m, modeCalibrationBitMask)
           [] line \in CallLines -> CallWrites(v, line)
           [] line >= 177 /\ line <= 213 -> hasCalibrate(v)
           [] line >= 244 /\ line <= 246 -> hasCalibrate(v)
           [] OTHER -> TRUE

\* whether the statement at `line` is executed by an invocation `e` with
\* request v and local mode m: the tests at lines 143, 162, 173 and 241
Executes(e, v, m, line) ==
    IF e = "convertGet" THEN line \in DOMAIN ConvertGetReads
    ELSE CASE line \in {163, 164} -> HasBit(m, modeCalibrationBitMask)
           [] line \in CallLines -> CallWrites(v, line)
           [] line >= 177 /\ line <= 213 -> hasCalibrate(v)
           [] line >= 244 -> hasCalibrate(v)
           [] OTHER -> TRUE

\* the first statement from index i on that is executed; 0 when the function
\* returns
RECURSIVE Resume(_, _, _, _)
Resume(e, v, m, i) ==
    IF i > Len(ProgramLines) THEN 0
    ELSE IF Executes(e, v, m, ProgramLines[i]) THEN ProgramLines[i]
    ELSE Resume(e, v, m, i + 1)

\* where a statement starts: waitUntilStopped begins with its sleep (line 124)
At(line) == <<line, IF line \in WaitLines THEN "sleep" ELSE "">>

\* the position after the statement at `line` has completed
After(e, v, m, line) == At(Resume(e, v, m, IndexOf(line) + 1))

\* first position of an invocation
Start(e, v, m) == At(Resume(e, v, m, 1))

Line(s) == pc[s][1]
Sub(s) == pc[s][2]

\* status once the position is known: line 0 is the return
StatusAt(pos) == IF pos[1] = 0 THEN "returned" ELSE "running"

\* variant: the rejection is swallowed and the invocation carries on
AfterRejectSwallowed == "running"

\* a rejected await is caught nowhere in convertSet: the invocation throws
AfterReject == "threw"

\* one record of the transport log
Op(s, line, op, arg, ok, res) ==
    [s |-> s, line |-> line, op |-> op, arg |-> arg, ok |-> ok, res |-> res]

\* the transport operation a running session is about to issue, if any
IsTransportAt(s) ==
    /\ status[s] = "running"
    /\ \/ Sub(s) = "read"
       \/ Sub(s) = "" /\ Line(s) \notin DOMAIN SleepLines

NextOp(s) ==
    LET l == Line(s) IN
    CASE Sub(s) = "read" -> <<"read", <<"operationalStatus">>>>
      [] l = 160 -> <<"read", <<"windowCoveringMode">>>>
      [] l \in ModeWriteLines -> <<"write", "windowCoveringMode" :> ModeWritten(l, mode[s])>>
      [] l \in CallLines -> <<"write", CallAttributes(value[s], l)>>
      [] l \in DOMAIN CommandLines -> <<"command", CommandLines[l]>>
      [] l = 181 -> <<"write", ResetAttributes>>
      [] OTHER -> <<"read", ConvertGetReads[l]>>

Issue(s, ok, res) ==
    ops' = Append(ops, Op(s, Line(s), NextOp(s)[1], NextOp(s)[2], ok, res))

Goto(s, pos) ==
    /\ pc' = [pc EXCEPT ![s] = pos]
    /\ status' = [status EXCEPT ![s] = StatusAt(pos)]

----------------------------------------------------------------------------
(* Steps of a session *)

\* line 160: read windowCoveringMode into `mode`
ReadMode(s) ==
    /\ IsTransportAt(s) /\ Line(s) = 160
    /\ Issue(s, TRUE, devMode)
    /\ mode' = [mode EXCEPT ![s] = devMode]
    /\ Goto(s, After(entry[s], value[s], devMode, 160))
    /\ UNCHANGED <<entry, value, devMode, polls, tplvars, fzvars>>

\* lines 163, 197, 245: write windowCoveringMode
WriteMode(s) ==
    /\ IsTransportAt(s) /\ Line(s) \in ModeWriteLines
    /\ Issue(s, TRUE, 0)
    /\ devMode' = ModeWritten(Line(s), mode[s])
    /\ Goto(s, After(entry[s], value[s], mode[s], Line(s)))
    /\ UNCHANGED <<entry, value, mode, polls, tplvars, fzvars>>

\* lines 143-150: the write of a writeAttrFromJson call whose key is present
WriteAttrFromJson(s) ==
    /\ IsTransportAt(s) /\ Line(s) \in CallLines
    /\ Issue(s, TRUE, 0)
    /\ devMode' = IF WriteAttrCalls[Line(s)].attr = "windowCoveringMode"
                  THEN CallAttributes(value[s], Line(s))["windowCoveringMode"]
                  ELSE devMode
    /\ IF WriteAttrCalls[Line(s)].delay # 0
       THEN Goto(s, <<Line(s), "delay">>)
       ELSE Goto(s, After(entry[s], value[s], mode[s], Line(s)))
    /\ UNCHANGED <<entry, value, mode, polls, tplvars, fzvars>>

\* variant: the call returns without sleeping after its write
DelayAfterWriteSkipped(s) ==
    /\ status[s] = "running" /\ Sub(s) = "delay"
    /\ Goto(s, After(entry[s], value[s], mode[s], Line(s)))
    /\ UNCHANGED <<entry, value, mode, ops, devMode, polls, tplvars, fzvars>>

\* lines 151-153: sleepSeconds(delaySecondsAfter), then the call returns; at
\* line 170 its result decides whether `mode` is replaced
DelayAfterWrite(s) ==
    /\ status[s] = "running" /\ Sub(s) = "delay"
    /\ ops' = Append(ops, Op(s, Line(s), "sleep", WriteAttrCalls[Line(s)].delay, TRUE, 0))
    /\ LET m == IF Line(s) = 170 THEN AdoptMode(value[s], mode[s]) ELSE mode[s]
       IN /\ mode' = [mode EXCEPT ![s] = m]
          /\ Goto(s, After(entry[s], value[s], m, Line(s)))
    /\ UNCHANGED <<entry, value, devMode, polls, tplvars, fzvars>>

\* lines 164, 196, 198, 202, 204, 244, 246: sleepSeconds
SleepSeconds(s) ==
    /\ status[s] = "running" /\ Sub(s) = "" /\ Line(s) \in DOMAIN SleepLines
    /\ ops' = Append(ops, Op(s, Line(s), "sleep", SleepLines[Line(s)], TRUE, 0))
    /\ Goto(s, After(entry[s], value[s], mode[s], Line(s)))
    /\ UNCHANGED <<entry, value, mode, devMode, polls, tplvars, fzvars>>

\* lines 177, 201, 203, 206, 209, 212: entity.command
Command(s) ==
    /\ IsTransportAt(s) /\ Line(s) \in DOMAIN CommandLines
    /\ Issue(s, TRUE, 0)
    /\ Goto(s, After(entry[s], value[s], mode[s], Line(s)))
    /\ UNCHANGED <<entry, value, mode, devMode, polls, tplvars, fzvars>>

\* lines 181-194: reset the limit and step attributes
WriteReset(s) ==
    /\ IsTransportAt(s) /\ Line(s) = 181
    /\ Issue(s, TRUE, 0)
    /\ Goto(s, After(entry[s], value[s], mode[s], Line(s)))
    /\ UNCHANGED <<entry, value, mode, devMode, polls, tplvars, fzvars>>

\* line 124: waitUntilStopped sleeps before every read
WaitSleep(s) ==
    /\ status[s] = "running" /\ Sub(s) = "sleep"
    /\ ops' = Append(ops, Op(s, Line(s), "sleep", 2, TRUE, 0))
    /\ Goto(s, <<Line(s), "read">>)
    /\ UNCHANGED <<entry, value, mode, devMode, polls, tplvars, fzvars>>

\* variant: the loop ends after its first read
MovingNever(operationalStatus) == FALSE

\* line 128: while (operationalStatus !== 0)
Moving(operationalStatus) == operationalStatus # 0

\* lines 125-128: read operationalStatus; loop while it is not 0. The actuator
\* answers 0 or, at most MaxPolls times, a moving status
WaitRead(s) ==
    /\ IsTransportAt(s) /\ Sub(s) = "read"
    /\ \E operationalStatus \in {0} \cup MovingValues :
          /\ operationalStatus # 0 => polls < MaxPolls
          /\ Issue(s, TRUE, operationalStatus)
          /\ polls' = IF operationalStatus # 0 THEN polls + 1 ELSE polls
          /\ Goto(s, <<Line(s), IF Moving(operationalStatus) THEN "sleep" ELSE "stopped">>)
    /\ UNCHANGED <<entry, value, mode, devMode, tplvars, fzvars>>

\* line 129: the sleep after the actuator has stopped
WaitStopped(s) ==
    /\ status[s] = "running" /\ Sub(s) = "stopped"
    /\ ops' = Append(ops, Op(s, Line(s), "sleep", 2, TRUE, 0))
    /\ Goto(s, After(entry[s], value[s], mode[s], Line(s)))
    /\ UNCHANGED <<entry, value, mode, devMode, polls, tplvars, fzvars>>

\* lines 257, 268, 279: the reads of convertGet
ConvertGetRead(s) ==
    /\ IsTransportAt(s) /\ Line(s) \in DOMAIN ConvertGetReads /\ Sub(s) = ""
    /\ Issue(s, TRUE, 0)
    /\ Goto(s, After(entry[s], value[s], mode[s], Line(s)))
    /\ UNCHANGED <<entry, value, mode, devMode, polls, tplvars, fzvars>>

\* any entity.read / write / command may reject; nothing catches it
TransportFailure(s) ==
    /\ IsTransportAt(s)
    /\ Issue(s, FALSE, 0)
    /\ status' = [status EXCEPT ![s] = AfterReject]
    /\ UNCHANGED <<entry, value, pc, mode, devMode, polls, tplvars, fzvars>>

----------------------------------------------------------------------------
(* The template loop is idle while a calibration specification runs *)

\* meta.state.configure_device_setup: undefined, or an object with its keys
State(defined, object) == [defined |-> defined, object |-> object]
NoState == State(FALSE, EmptyRequest)

\* meta.device.softwareBuildID: the text is "" when the device reports none,
\* the version is <<>> when the text is no semantic version
Build(text, version) == [text |-> text, version |-> version]
NoBuild == Build("", <<>>)

\* no report has been converted and nothing is published
FzIdle == state = NoState /\ reports = <<>>

\* no configure_device_setup call is in progress
SetupIdle ==
    /\ svalue = EmptyRequest /\ softwareBuildID = NoBuild
    /\ spos = "idle" /\ sops = <<>>

TplIdle ==
    /\ cmodel = "" /\ templates = <<>> /\ cstatus = "idle" /\ thrown = <<>>
    /\ input = 0 /\ endpoint = 0 /\ groupId = 0 /\ inputActions = <<>>
    /\ resultingInputActions = <<>>
    /\ earlier = FALSE
    /\ SetupIdle

----------------------------------------------------------------------------
(* One invocation of configure_j1 against the device *)

InitJ1 ==
    /\ devMode \in ModeValues
    /\ polls = 0
    /\ ops = <<>>
    /\ \E e \in {"convertSet", "convertGet"} :
       \E v \in (IF e = "convertSet" THEN Requests ELSE {EmptyRequest}) :
          /\ entry = (1 :> e) @@ (2 :> "none")
          /\ value = (1 :> v) @@ (2 :> EmptyRequest)
          /\ mode = (1 :> 0) @@ (2 :> 0)
          /\ pc = (1 :> Start(e, v, 0)) @@ (2 :> <<0, "">>)
          /\ status = (1 :> "running") @@ (2 :> "idle")
    /\ TplIdle
    /\ FzIdle

NextJ1 ==
    \/ ReadMode(1)
    \/ WriteMode(1)
    \/ WriteAttrFromJson(1)
    \/ DelayAfterWrite(1)
    \/ SleepSeconds(1)
    \/ Command(1)
    \/ WriteReset(1)
    \/ WaitSleep(1)
    \/ WaitRead(1)
    \/ WaitStopped(1)
    \/ ConvertGetRead(1)
    \/ TransportFailure(1)

SpecJ1 == InitJ1 /\ [][NextJ1]_vars

----------------------------------------------------------------------------
(* configure_device_setup.convertSet: the template registry (lines 417-516) *)

\* JavaScript's undefined and NaN, where a number is expected
Undefined == -1
NaN == -2

IsNumber(x) == x \notin {Undefined, NaN}
\* x + n
JsAdd(x, n) == IF IsNumber(x) THEN x + n ELSE NaN
\* x < n
JsLess(x, n) == IsNumber(x) /\ x < n

\* variant: the registry lacks scene_switch
TemplateTypeNamesWithoutSceneSwitch ==
    <<"toggle", "toggle_switch", "on_off_switch", "on", "off", "dimmer_single",
      "dimmer_double", "cover", "cover_switch", "cover_up", "cover_down", "scene">>

\* Object.keys(templateTypes)
TemplateTypeNames ==
    <<"toggle", "toggle_switch", "on_off_switch", "on", "off", "dimmer_single",
      "dimmer_double", "cover", "cover_switch", "cover_up", "cover_down", "scene",
      "scene_switch">>

IsTemplateType(type) == \E i \in 1..Len(TemplateTypeNames) : TemplateTypeNames[i] = type

\* templateType.cover
Cover(type) == type \in {"cover", "cover_switch", "cover_up", "cover_down"}
\* templateType.doubleInputs
DoubleInputs(type) == type \in {"dimmer_double", "cover", "cover_switch"}
\* templateType.scene
Scene(type) == type \in {"scene", "scene_switch"}

\* a template field that is set and truthy (no_onoff, no_onoff_up, no_onoff_down)
Flag(t, k) == Has(t, k) /\ t[k] = TRUE

defaultMoveRate == 50

\* lines 443, 457
moveUpCmd(t) == IF Flag(t, "no_onoff") \/ Flag(t, "no_onoff_up") THEN 1 ELSE 5
\* lines 444, 458
moveDownCmd(t) == IF Flag(t, "no_onoff") \/ Flag(t, "no_onoff_down") THEN 1 ELSE 5
\* lines 445, 459: template.rate || 50
moveRate(t) == IF Has(t, "rate") /\ t["rate"] # 0 THEN t["rate"] ELSE defaultMoveRate

\* getInputActions of the families without scenes; `in` is the input, or the
\* pair of inputs of a doubleInputs family; ep the endpoint; t the template
GetInputActions(type, in, ep, t) ==
    CASE type = "toggle" -> << <<in, 13, ep, 6, 0, 2>> >>
      [] type = "toggle_switch" -> << <<in, 13, ep, 6, 0, 2>>, <<in, 3, ep, 6, 0, 2>> >>
      [] type = "on_off_switch" -> << <<in, 13, ep, 6, 0, 1>>, <<in, 3, ep, 6, 0, 0>> >>
      [] type = "on" -> << <<in, 13, ep, 6, 0, 1>> >>
      [] type = "off" -> << <<in, 13, ep, 6, 0, 0>> >>
      [] type = "dimmer_single" ->
            << <<in, 7, ep, 6, 0, 2>>,
               <<in, 134, ep, 8, 0, moveUpCmd(t), 0, moveRate(t)>>,
               <<in, 198, ep, 8, 0, moveDownCmd(t), 1, moveRate(t)>>,
               <<in, 11, ep, 8, 0, 3>> >>
      [] type = "dimmer_double" ->
            << <<in[1], 7, ep, 6, 0, 1>>,
               <<in[1], 6, ep, 8, 0, moveUpCmd(t), 0, moveRate(t)>>,
               <<in[1], 11, ep, 8, 0, 3>>,
               <<in[2], 7, ep, 6, 0, 0>>,
               <<in[2], 6, ep, 8, 0, moveDownCmd(t), 1, moveRate(t)>>,
               <<in[2], 11, ep, 8, 0, 3>> >>
      [] type = "cover" ->
            << <<in[1], 13, ep, 2, 1, 0>>, <<in[1], 7, ep, 2, 1, 2>>,
               <<in[2], 13, ep, 2, 1, 1>>, <<in[2], 7, ep, 2, 1, 2>> >>
      [] type = "cover_switch" ->
            << <<in[1], 13, ep, 2, 1, 0>>, <<in[1], 3, ep, 2, 1, 2>>,
               <<in[2], 13, ep, 2, 1, 1>>, <<in[2], 3, ep, 2, 1, 2>> >>
      [] type = "cover_up" -> << <<in, 13, ep, 2, 1, 0>> >>
      [] type = "cover_down" -> << <<in, 13, ep, 2, 1, 1>> >>

\* groupId & 0xff, groupId >> 8 and the scene id: the recall-scene payload
ScenePayload(mask, in, ep, g, sceneId) ==
    <<in, mask, ep, 5, 0, 5, g % 256, g \div 256, sceneId>>

\* getInputActions of scene (line 500) and scene_switch (line 509)
GetSceneActions(type, in, ep, g, sceneId) ==
    << ScenePayload(IF type = "scene" THEN 7 ELSE 13, in, ep, g, sceneId) >>

\* variant: the second scene is dropped
GetSceneActions2None(type, in, ep, g, sceneId) == <<>>

\* getInputActions2 of scene (line 503) and scene_switch (line 512)
GetSceneActions2(type, in, ep, g, sceneId) ==
    << ScenePayload(IF type = "scene" THEN 6 ELSE 3, in, ep, g, sceneId) >>

----------------------------------------------------------------------------
(* The template loop (lines 518-583) *)

\* variant: S2 starts at endpoint 2 like S1
StartEndpointS2AsS1(model) ==
    CASE model \in {"S1", "S2", "D1", "J1"} -> 2
      [] model = "C4" -> 1
      [] OTHER -> Undefined

\* line 522: {S1: 2, S2: 3, D1: 2, J1: 2, C4: 1}[meta.mapped.model]
StartEndpoint(model) ==
    CASE model = "S1" -> 2
      [] model = "S2" -> 3
      [] model = "D1" -> 2
      [] model = "J1" -> 2
      [] model = "C4" -> 1
      [] OTHER -> Undefined

\* the models whose definition lists ubisys.tz.configure_device_setup
Models == {"S1", "S1-R", "S2", "D1", "J1", "C4"}

\* lines 538-540: template.input overrides the cursor
ResolveInput(t, in) == IF Has(t, "input") THEN t["input"] ELSE in

\* variant: the C4 shift without the test of templateType.cover
ResolveEndpointEveryFamily(model, t, ep) ==
    LET e == IF Has(t, "endpoint") THEN t["endpoint"] ELSE ep
    IN IF model = "C4" /\ JsLess(e, 5) THEN JsAdd(e, 4) ELSE e

\* lines 541-547: template.endpoint overrides the cursor; C4 cover endpoints
\* only start at 5
ResolveEndpoint(model, t, ep) ==
    LET e == IF Has(t, "endpoint") THEN t["endpoint"] ELSE ep
    IN IF Cover(t["type"]) /\ model = "C4" /\ JsLess(e, 5) THEN JsAdd(e, 4) ELSE e

\* variant: both halves of a pair on the cursor's input
DoubleInputSame(t, in) == IF Has(t, "inputs") THEN t["inputs"] ELSE <<in, in>>

\* line 574: the pair of inputs of a doubleInputs family
DoubleInput(t, in) == IF Has(t, "inputs") THEN t["inputs"] ELSE <<in, in + 1>>

\* variant: the first input of a pair instead of the greatest
NextInputFirst(type, used) ==
    IF DoubleInputs(type) THEN used[1] + 1 ELSE used + 1

\* line 581: (Array.isArray(input) ? Math.max(...input) : input) + 1
NextInput(type, used) ==
    IF DoubleInputs(type)
    THEN (IF used[1] >= used[2] THEN used[1] ELSE used[2]) + 1
    ELSE used + 1

\* line 582: endpoint += 1
NextEndpoint(ep) == JsAdd(ep, 1)

\* lines 560-562, 566-568: group_id / group_id_2 override the cursor
ResolveGroup(t, k, g) == IF Has(t, k) THEN t[k] ELSE g

\* lines 551-576: the tuples of one template, given the resolved cursor
Expand(t, in, ep, g) ==
    LET type == t["type"] IN
    IF Scene(type)
    THEN LET g1 == ResolveGroup(t, "group_id", g)
             g2 == ResolveGroup(t, "group_id_2", g1)
         IN GetSceneActions(type, in, ep, g1, t["scene_id"]) \o
            (IF Has(t, "scene_id_2")
             THEN GetSceneActions2(type, in, ep, g2, t["scene_id_2"])
             ELSE <<>>)
    ELSE GetInputActions(type, in, ep, t)

\* variant: group_id_2 serves its own binding only and leaves the cursor
NextGroupPrimaryOnly(t, g) ==
    IF ~Scene(t["type"]) THEN g ELSE ResolveGroup(t, "group_id", g)

\* groupId after a template
NextGroup(t, g) ==
    IF ~Scene(t["type"]) THEN g
    ELSE LET g1 == ResolveGroup(t, "group_id", g)
         IN IF Has(t, "scene_id_2") THEN ResolveGroup(t, "group_id_2", g1) ELSE g1

\* templates of the requests: every family bare, and the overrides
\* the families read; the last one has a group_id_2 without a scene_id_2
Tpl(type) == "type" :> type

TemplateSet ==
    {Tpl(TemplateTypeNames[i]) : i \in 1..Len(TemplateTypeNames)}
    \cup {Tpl("nonexistent")}
    \cup {Tpl(ty) @@ ("input" :> 3) : ty \in {"toggle", "cover"}}
    \cup {Tpl(ty) @@ ("inputs" :> <<4, 1>>) : ty \in {"dimmer_double", "cover_switch"}}
    \cup {Tpl(ty) @@ ("endpoint" :> e) : ty \in {"on", "cover_up"}, e \in {2, 5}}
    \cup {Tpl(ty) @@ ("rate" :> r) : ty \in {"dimmer_single", "dimmer_double"}, r \in {0, 20}}
    \cup {Tpl(ty) @@ (k :> TRUE) : ty \in {"dimmer_single", "dimmer_double"},
                                  k \in {"no_onoff", "no_onoff_up", "no_onoff_down"}}
    \cup {Tpl(ty) @@ ("scene_id" :> 7) : ty \in {"scene", "scene_switch"}}
    \cup {Tpl(ty) @@ ("scene_id" :> 7) @@ ("group_id" :> 513) : ty \in {"scene", "scene_switch"}}
    \cup {Tpl(ty) @@ ("scene_id" :> 7) @@ ("scene_id_2" :> 8) : ty \in {"scene", "scene_switch"}}
    \cup {Tpl(ty) @@ ("scene_id" :> 7) @@ ("scene_id_2" :> 8) @@ ("group_id_2" :> 300) :
            ty \in {"scene", "scene_switch"}}
    \cup {Tpl("scene") @@ ("scene_id" :> 7) @@ ("group_id_2" :> 300)}

\* lines 532-535: the error names the type and lists Object.keys(templateTypes)
InvalidTypeError(t) == <<"not valid", t["type"], TemplateTypeNames>>

\* variant: the error does not say which family lacks its scene_id
NeedSceneIdErrorUnnamed(t) == <<"need scene_id", "">>

\* line 558: the error names the family
NeedSceneIdError(t) == <<"need scene_id", t["type"]>>

\* variant: the group id survives from the invocation before
FirstGroupIdKept(g) == g

\* line 524: let groupId = 0, whatever g the variable held before
FirstGroupId(g) == 0

\* the locals of the loop: the cursor, the tuples compiled and the error thrown
Cursor(in, ep, g, out, err) ==
    [input |-> in, endpoint |-> ep, groupId |-> g, actions |-> out, error |-> err]

\* lines 528-583: one iteration on the locals c, for the template t
Iterate(model, c, t) ==
    IF ~IsTemplateType(t["type"])
    THEN [c EXCEPT !.error = InvalidTypeError(t)]
    ELSE LET in == ResolveInput(t, c.input)
             ep == ResolveEndpoint(model, t, c.endpoint)
         IN IF Scene(t["type"]) /\ ~Has(t, "scene_id")
            THEN [c EXCEPT !.input = in, !.endpoint = ep, !.error = NeedSceneIdError(t)]
            ELSE LET used == IF DoubleInputs(t["type"]) THEN DoubleInput(t, in) ELSE in
                 IN Cursor(NextInput(t["type"], used), NextEndpoint(ep),
                           NextGroup(t, c.groupId),
                           c.actions \o Expand(t, used, ep, c.groupId), <<>>)

\* lines 518-583 run without an await: the locals after the first n templates
\* of a list, in a call of its own; a throw ends the loop
RECURSIVE Compile(_, _, _)
Compile(model, list, n) ==
    IF n = 0
    THEN Cursor(0, StartEndpoint(model), FirstGroupId(0), <<>>, <<>>)
    ELSE LET c == Compile(model, list, n - 1)
         IN IF c.error # <<>> THEN c ELSE Iterate(model, c, list[n])


\* lines 518-527: the cursor before the first template
BeginTemplates ==
    /\ cstatus = "start"
    /\ cstatus' = "loop"
    /\ input' = 0
    /\ endpoint' = StartEndpoint(cmodel)
    /\ groupId' = FirstGroupId(groupId)
    /\ resultingInputActions' = <<>>
    /\ UNCHANGED <<cmodel, templates, thrown, inputActions, earlier, setupvars, j1vars, fzvars>>

\* lines 530-536: a type that is no key of templateTypes
InvalidType ==
    /\ cstatus = "loop" /\ Len(templates) < MaxTemplates
    /\ \E t \in TemplateSet :
          /\ ~IsTemplateType(t["type"])
          /\ templates' = Append(templates, t)
          /\ thrown' = InvalidTypeError(t)
    /\ cstatus' = "error"
    /\ UNCHANGED <<cmodel, input, endpoint, groupId, inputActions, resultingInputActions,
                   earlier, setupvars, j1vars, fzvars>>

\* lines 557-559: a scene family without scene_id
NeedSceneId ==
    /\ cstatus = "loop" /\ Len(templates) < MaxTemplates
    /\ \E t \in TemplateSet :
          /\ IsTemplateType(t["type"]) /\ Scene(t["type"]) /\ ~Has(t, "scene_id")
          /\ templates' = Append(templates, t)
          /\ thrown' = NeedSceneIdError(t)
          \* lines 538-547 have run before the throw
          /\ input' = ResolveInput(t, input)
          /\ endpoint' = ResolveEndpoint(cmodel, t, endpoint)
    /\ cstatus' = "error"
    /\ UNCHANGED <<cmodel, groupId, inputActions, resultingInputActions, earlier, setupvars, j1vars, fzvars>>

\* lines 528-583: one iteration of the loop
ProcessTemplate ==
    /\ cstatus = "loop" /\ Len(templates) < MaxTemplates
    /\ \E t \in TemplateSet :
          /\ IsTemplateType(t["type"])
          /\ Scene(t["type"]) => Has(t, "scene_id")
          /\ LET in == ResolveInput(t, input)
                 ep == ResolveEndpoint(cmodel, t, endpoint)
                 used == IF DoubleInputs(t["type"]) THEN DoubleInput(t, in) ELSE in
                 out == Expand(t, used, ep, groupId)
             IN /\ templates' = Append(templates, t)
                /\ inputActions' = out
                /\ resultingInputActions' = resultingInputActions \o out
                /\ groupId' = NextGroup(t, groupId)
                /\ input' = NextInput(t["type"], used)
                /\ endpoint' = NextEndpoint(ep)
    /\ UNCHANGED <<cmodel, cstatus, thrown, earlier, setupvars, j1vars, fzvars>>

\* lines 585-608: the list is exhausted; the compiled actions are written
WriteCompiled ==
    /\ cstatus = "loop"
    /\ cstatus' = "written"
    /\ UNCHANGED <<cmodel, templates, thrown, input, endpoint, groupId,
                   inputActions, resultingInputActions, earlier, setupvars, j1vars, fzvars>>

\* the converter is called again, for any device that uses it. The new call
\* has locals of its own (lines 519-527, 550): the cursor variables keep what
\* the ended call left until BeginTemplates declares them anew
Reinvoke ==
    /\ cstatus \in {"written", "error"}
    /\ cstatus' = "start"
    /\ cmodel' \in Models
    /\ templates' = <<>>
    /\ thrown' = <<>>
    /\ inputActions' = <<>>
    /\ resultingInputActions' = <<>>
    /\ earlier' = TRUE
    /\ UNCHANGED <<input, endpoint, groupId, setupvars, j1vars, fzvars>>

\* no calibration session runs while a template specification runs
J1Idle ==
    /\ entry = (1 :> "none") @@ (2 :> "none")
    /\ value = (1 :> EmptyRequest) @@ (2 :> EmptyRequest)
    /\ status = (1 :> "idle") @@ (2 :> "idle")
    /\ pc = (1 :> <<0, "">>) @@ (2 :> <<0, "">>)
    /\ mode = (1 :> 0) @@ (2 :> 0)
    /\ ops = <<>> /\ devMode = 0 /\ polls = 0

InitTemplates ==
    /\ cmodel \in Models
    /\ templates = <<>>
    /\ cstatus = "start"
    /\ thrown = <<>>
    /\ input = 0 /\ endpoint = 0 /\ groupId = 0
    /\ inputActions = <<>>
    /\ resultingInputActions = <<>>
    /\ earlier = FALSE
    /\ SetupIdle
    /\ FzIdle
    /\ J1Idle

NextTemplates ==
    \/ BeginTemplates
    \/ InvalidType
    \/ NeedSceneId
    \/ ProcessTemplate
    \/ WriteCompiled
    \/ Reinvoke

SpecTemplates == InitTemplates /\ [][NextTemplates]_vars

----------------------------------------------------------------------------
(* configure_device_setup.convertSet / convertGet as a whole (lines 345-619) *)

\* variant: every device is written with writeStructured
UseWriteStructAlways(build) == TRUE

\* semverGte(a, "1.9.0", true) on a parsed version <<major, minor, patch>>
SemverGte(a, b) ==
    \/ a[1] > b[1]
    \/ a[1] = b[1] /\ a[2] > b[2]
    \/ a[1] = b[1] /\ a[2] = b[2] /\ a[3] >= b[3]

\* lines 354-357: useWriteStruct
UseWriteStruct(build) ==
    /\ build.text # ""
    /\ build.version # <<>>
    /\ SemverGte(build.version, <<1, 9, 0>>)

\* the softwareBuildID a device may report
Builds ==
    {NoBuild, Build("unknown", <<>>), Build("1.8.9", <<1, 8, 9>>),
     Build("1.9.0", <<1, 9, 0>>), Build("1.10.0", <<1, 10, 0>>),
     Build("2.3.1", <<2, 3, 1>>)}

\* value.input_action_templates: a list of templates, or one template object
TemplatesPayload(array, items) == [array |-> array, items |-> items]

\* line 526: a value that is no array is wrapped into a list of one
TemplatesOf(v) == v["input_action_templates"].items

\* the templates the requests of a whole call are built from
SetupTemplates ==
    {Tpl("toggle"), Tpl("dimmer_double"), Tpl("scene") @@ ("scene_id" :> 7),
     Tpl("scene"), Tpl("nonexistent")}

RECURSIVE ListsUpTo(_, _)
ListsUpTo(S, n) ==
    IF n = 0 THEN {<<>>}
    ELSE LET shorter == ListsUpTo(S, n - 1)
         IN shorter \cup {Append(l, x) : l \in shorter, x \in S}

\* the values a request gives each of the three keys
SetupKeyValues(k) ==
    CASE k = "input_configurations" -> {<<0, 0, 0, 0>>}
      [] k = "input_actions" -> {<< <<0, 13, 1, 6, 0, 2>>, <<1, 13, 2, 6, 0, 2>> >>}
      [] k = "input_action_templates" ->
            {TemplatesPayload(TRUE, l) : l \in ListsUpTo(SetupTemplates, MaxTemplates)}
            \cup {TemplatesPayload(FALSE, <<t>>) : t \in SetupTemplates}

SetupKeys == {"input_configurations", "input_actions", "input_action_templates"}

RECURSIVE SetupRequestsOn(_)
SetupRequestsOn(S) ==
    IF S = {} THEN {EmptyRequest}
    ELSE LET k == CHOOSE x \in S : TRUE
         IN {(k :> x) @@ f : f \in SetupRequestsOn(S \ {k}), x \in SetupKeyValues(k)}

SetupRequests == UNION {SetupRequestsOn(S) : S \in SUBSET SetupKeys}

\* variant: input_actions is written before input_configurations
SetupStagesActionsFirst ==
    <<"input_actions", "input_configurations", "input_action_templates",
      "convertGet", "inputActions">>

\* the awaits of convertSet and convertGet, in program order, by the key whose
\* test (lines 362, 389, 416) guards them
SetupStages == <<"input_configurations", "input_actions", "input_action_templates",
                 "convertGet", "inputActions">>

\* the first stage from index i on that is executed; the reads always are
RECURSIVE SetupResume(_, _)
SetupResume(v, i) ==
    IF i > Len(SetupStages) THEN "returned"
    ELSE IF SetupStages[i] \in SetupKeys /\ ~Has(v, SetupStages[i])
         THEN SetupResume(v, i + 1)
         ELSE SetupStages[i]

StageIndex(stage) == CHOOSE i \in 1..Len(SetupStages) : SetupStages[i] = stage

SetupAfter(v, stage) == SetupResume(v, StageIndex(stage) + 1)

\* the attribute a stage writes, its element type and its elements
StageAttribute(stage) ==
    IF stage = "input_configurations" THEN "inputConfigurations" ELSE "inputActions"
StageElementType(stage) ==
    IF stage = "input_configurations" THEN "DATA8" ELSE "OCTET_STR"
StageElements(v, stage, compiled) ==
    IF stage = "input_action_templates" THEN compiled ELSE v[stage]

\* the line of the transport call of a stage
StageLine(stage, structured) ==
    CASE stage = "input_configurations" -> IF structured THEN 365 ELSE 381
      [] stage = "input_actions" -> IF structured THEN 392 ELSE 408
      [] stage = "input_action_templates" -> IF structured THEN 587 ELSE 603
      [] stage = "convertGet" -> 617
      [] OTHER -> 618

\* devMgmtEp.writeStructured(cluster, [{attrId, selector, dataType,
\* elementData: {elementType, elements}}], options)
WriteStructured(line, attr, elementType, elements, ok) ==
    [line |-> line, call |-> "writeStructured", by |-> "ID", attribute |-> attr,
     dataType |-> "ARRAY", elementType |-> elementType, elements |-> elements,
     ok |-> ok]

\* devMgmtEp.write(cluster, {[attribute.name]: {elementType, elements}}, options)
WriteEnvelope(line, attr, elementType, elements, ok) ==
    [line |-> line, call |-> "write", by |-> "name", attribute |-> attr,
     dataType |-> "", elementType |-> elementType, elements |-> elements,
     ok |-> ok]

\* devMgmtEp.read(cluster, [attribute], options)
ReadAttribute(line, attr, ok) ==
    [line |-> line, call |-> "read", by |-> "name", attribute |-> attr,
     dataType |-> "", elementType |-> "", elements |-> <<>>, ok |-> ok]

\* lines 364-386, 391-413, 586-608: the one call that writes a payload
StageWrite(v, stage, compiled, ok) ==
    IF UseWriteStruct(softwareBuildID)
    THEN WriteStructured(StageLine(stage, TRUE), StageAttribute(stage),
                         StageElementType(stage), StageElements(v, stage, compiled), ok)
    ELSE WriteEnvelope(StageLine(stage, FALSE), StageAttribute(stage),
                       StageElementType(stage), StageElements(v, stage, compiled), ok)

\* the locals of the template loop after it has run on the request's list
Compiled(v) == Compile(cmodel, TemplatesOf(v), Len(TemplatesOf(v)))

\* what the loop leaves in the variables of the template compiler
LoopRan(c) ==
    /\ templates' = TemplatesOf(svalue)
    /\ input' = c.input /\ endpoint' = c.endpoint /\ groupId' = c.groupId
    /\ resultingInputActions' = c.actions
    /\ thrown' = c.error

\* lines 362-387: write input_configurations
WriteInputConfigurations ==
    /\ spos = "input_configurations"
    /\ sops' = Append(sops, StageWrite(svalue, spos, <<>>, TRUE))
    /\ spos' = SetupAfter(svalue, spos)
    /\ UNCHANGED <<cmodel, templates, cstatus, thrown, input, endpoint, groupId,
                   inputActions, resultingInputActions, earlier,
                   svalue, softwareBuildID, j1vars, fzvars>>

\* lines 389-414: write input_actions
WriteInputActions ==
    /\ spos = "input_actions"
    /\ sops' = Append(sops, StageWrite(svalue, spos, <<>>, TRUE))
    /\ spos' = SetupAfter(svalue, spos)
    /\ UNCHANGED <<cmodel, templates, cstatus, thrown, input, endpoint, groupId,
                   inputActions, resultingInputActions, earlier,
                   svalue, softwareBuildID, j1vars, fzvars>>

\* lines 416-608: the loop runs to its end and the compiled actions are written
WriteCompiledTemplates ==
    /\ spos = "input_action_templates"
    /\ Compiled(svalue).error = <<>>
    /\ LoopRan(Compiled(svalue))
    /\ sops' = Append(sops, StageWrite(svalue, spos, Compiled(svalue).actions, TRUE))
    /\ spos' = SetupAfter(svalue, spos)
    /\ UNCHANGED <<cmodel, cstatus, inputActions, earlier, svalue, softwareBuildID, j1vars, fzvars>>

\* lines 531-536, 557-559: the loop throws; nothing catches it
TemplateError ==
    /\ spos = "input_action_templates"
    /\ Compiled(svalue).error # <<>>
    /\ LoopRan(Compiled(svalue))
    /\ spos' = "threw"
    /\ UNCHANGED <<cmodel, cstatus, inputActions, earlier, svalue, softwareBuildID,
                   sops, j1vars, fzvars>>

\* line 617: read inputConfigurations
ReadInputConfigurations ==
    /\ spos = "convertGet"
    /\ sops' = Append(sops, ReadAttribute(617, "inputConfigurations", TRUE))
    /\ spos' = SetupAfter(svalue, spos)
    /\ UNCHANGED <<cmodel, templates, cstatus, thrown, input, endpoint, groupId,
                   inputActions, resultingInputActions, earlier,
                   svalue, softwareBuildID, j1vars, fzvars>>

\* line 618: read inputActions
ReadInputActions ==
    /\ spos = "inputActions"
    /\ sops' = Append(sops, ReadAttribute(618, "inputActions", TRUE))
    /\ spos' = SetupAfter(svalue, spos)
    /\ UNCHANGED <<cmodel, templates, cstatus, thrown, input, endpoint, groupId,
                   inputActions, resultingInputActions, earlier,
                   svalue, softwareBuildID, j1vars, fzvars>>

\* a write of a raw payload or a read is rejected; nothing catches it
SetupTransportFailure ==
    /\ spos \in {"input_configurations", "input_actions", "convertGet", "inputActions"}
    /\ sops' = Append(sops,
            IF spos \in SetupKeys THEN StageWrite(svalue, spos, <<>>, FALSE)
            ELSE ReadAttribute(StageLine(spos, FALSE), StageAttribute(spos) , FALSE))
    /\ spos' = "threw"
    /\ UNCHANGED <<cmodel, templates, cstatus, thrown, input, endpoint, groupId,
                   inputActions, resultingInputActions, earlier,
                   svalue, softwareBuildID, j1vars, fzvars>>

\* the write of the compiled actions is rejected
CompiledWriteFailure ==
    /\ spos = "input_action_templates"
    /\ Compiled(svalue).error = <<>>
    /\ LoopRan(Compiled(svalue))
    /\ sops' = Append(sops, StageWrite(svalue, spos, Compiled(svalue).actions, FALSE))
    /\ spos' = "threw"
    /\ UNCHANGED <<cmodel, cstatus, inputActions, earlier, svalue, softwareBuildID, j1vars, fzvars>>

InitSetup ==
    /\ cmodel \in Models
    /\ softwareBuildID \in Builds
    /\ svalue \in SetupRequests
    /\ spos = SetupResume(svalue, 1)
    /\ sops = <<>>
    /\ templates = <<>> /\ cstatus = "idle" /\ thrown = <<>>
    /\ input = 0 /\ endpoint = 0 /\ groupId = 0
    /\ inputActions = <<>> /\ resultingInputActions = <<>>
    /\ earlier = FALSE
    /\ FzIdle
    /\ J1Idle

NextSetup ==
    \/ WriteInputConfigurations
    \/ WriteInputActions
    \/ WriteCompiledTemplates
    \/ TemplateError
    \/ ReadInputConfigurations
    \/ ReadInputActions
    \/ SetupTransportFailure
    \/ CompiledWriteFailure

SpecSetup == InitSetup /\ [][NextSetup]_vars

----------------------------------------------------------------------------
(* Reading the transport log *)

\* the log of session s
SessionOps(s) == SelectSeq(ops, LAMBDA o : o.s = s)

IsWrite(o) == o.op = "write"
IsModeWrite(o) == IsWrite(o) /\ "windowCoveringMode" \in DOMAIN o.arg
IsCommand(o) == o.op = "command"
IsPoll(o) == o.op = "read" /\ o.arg = <<"operationalStatus">>
IsReadBack(o) == o.op = "read" /\ o.line \in DOMAIN ConvertGetReads

\* the windowCoveringMode writes of session s that were acknowledged
ModeWrites(s) == SelectSeq(SessionOps(s), LAMBDA o : IsModeWrite(o) /\ o.ok)

Last(q) == q[Len(q)]

Ended(s) == status[s] \in {"returned", "threw"}
Returned(s) == entry[s] = "convertSet" /\ status[s] = "returned"

CalibrationBit(m) == (m \div 2) % 2 = 1

----------------------------------------------------------------------------
(* C1 *)

\* C1: in every convertSet run with calibrate: true that returns, the last
\* windowCoveringMode write of the run has bit 0x02 cleared, whatever other
\* attributes the request supplies
C1_LastModeWriteClearsBit ==
    \A s \in Sessions :
        (Returned(s) /\ Has(value[s], "calibrate") /\ value[s]["calibrate"] = TRUE)
        => /\ Len(ModeWrites(s)) > 0
           /\ ~CalibrationBit(Last(ModeWrites(s)).arg["windowCoveringMode"])

\* a calibrating run has returned whose request supplied a windowCoveringMode
\* with the calibration bit set, on a device that had the bit set too
C1_Witness ==
    /\ Returned(1) /\ Has(value[1], "calibrate") /\ value[1]["calibrate"] = TRUE
    /\ Has(value[1], "windowCoveringMode")
    /\ CalibrationBit(value[1]["windowCoveringMode"])
    /\ CalibrationBit(mode[1])

----------------------------------------------------------------------------
(* C2 *)

OnlyOpenLimit == "installedOpenLimitLiftCm" :> 50
OpenLimitNoCalibration == ("calibrate" :> FALSE) @@ OnlyOpenLimit

\* the writes of a session other than the Settle write of line 163
WritesAfterSettle(s) == SelectSeq(SessionOps(s), LAMBDA o : IsWrite(o) /\ o.line # 163)

----------------------------------------------------------------------------
(* C3 *)

\* C3 as claimed: whenever convertSet ends, normally or by a transport
\* failure, the mode its writes left on the device has bit 0x02 cleared
C3_Original ==
    \A s \in Sessions :
        (entry[s] = "convertSet" /\ Ended(s) /\ Len(ModeWrites(s)) > 0)
        => ~CalibrationBit(Last(ModeWrites(s)).arg["windowCoveringMode"])

\* C3 amended: when convertSet ends with bit 0x02 set in its last acknowledged
\* windowCoveringMode write, either a transport failure aborted it after the
\* EnableCalibration write (line 197), or that write is the BaseConfig write
\* (line 170) of a caller-supplied mode with the bit set, and the run ended
\* without calibrating or by a failure; a calibrating run that returns leaves
\* the bit cleared
C3_BitLeftSetOnlyByAbortOrSuppliedMode ==
    \A s \in Sessions :
        (entry[s] = "convertSet" /\ Ended(s) /\ Len(ModeWrites(s)) > 0
            /\ CalibrationBit(Last(ModeWrites(s)).arg["windowCoveringMode"]))
        => \/ status[s] = "threw" /\ Last(ModeWrites(s)).line = 197
           \/ /\ Last(ModeWrites(s)).line = 170
              /\ CalibrationBit(value[s]["windowCoveringMode"])
              /\ status[s] = "threw" \/ ~Has(value[s], "calibrate")

\* a run has been aborted by a failed poll after its EnableCalibration write
C3_Witness ==
    /\ status[1] = "threw"
    /\ Len(ModeWrites(1)) > 0 /\ Last(ModeWrites(1)).line = 197
    /\ CalibrationBit(devMode)
    /\ IsPoll(Last(ops))

----------------------------------------------------------------------------
(* C4 *)

\* C4 as claimed: the only windowCoveringMode write of a session that has bit
\* 0x02 set is the EnableCalibration write
C4_Original ==
    \A i \in 1..Len(ops) :
        (IsModeWrite(ops[i]) /\ CalibrationBit(ops[i].arg["windowCoveringMode"]))
        => ops[i].line = 197

\* C4 amended: a windowCoveringMode write with bit 0x02 set is the
\* EnableCalibration write of a calibrating run, or the BaseConfig write of a
\* caller-supplied windowCoveringMode that has the bit set, written unchanged;
\* the Settle and Finalize writes never set it
C4_BitSetOnlyByEnableOrSuppliedMode ==
    \A i \in 1..Len(ops) :
        (IsModeWrite(ops[i]) /\ CalibrationBit(ops[i].arg["windowCoveringMode"]))
        => \/ ops[i].line = 197 /\ Has(value[ops[i].s], "calibrate")
           \/ /\ ops[i].line = 170
              /\ ops[i].arg["windowCoveringMode"] = value[ops[i].s]["windowCoveringMode"]

\* a run without calibrate has written a supplied mode with the bit set
C4_Witness ==
    /\ Returned(1) /\ ~Has(value[1], "calibrate")
    /\ \E i \in 1..Len(ops) :
          /\ IsModeWrite(ops[i]) /\ ops[i].line = 170 /\ ops[i].ok
          /\ CalibrationBit(ops[i].arg["windowCoveringMode"])
    /\ CalibrationBit(devMode)

----------------------------------------------------------------------------
(* C5 *)

\* C5: a failed transport operation is the last entry of its session's log
\* (no retry, no restoring write, nothing after it), and the session has
\* thrown exactly when its log holds a failed operation
C5_NothingAfterFailure ==
    \A s \in Sessions :
        LET q == SessionOps(s) IN
        /\ \A i \in 1..Len(q) : ~q[i].ok => i = Len(q)
        /\ status[s] = "threw" <=> (Len(q) > 0 /\ ~Last(q).ok)

\* a poll of waitUntilStopped has failed after the calibration bit was set
C5_Witness ==
    /\ status[1] = "threw"
    /\ IsPoll(Last(ops)) /\ ~Last(ops).ok
    /\ Len(ModeWrites(1)) > 0 /\ Last(ModeWrites(1)).line = 197

----------------------------------------------------------------------------
(* C6 *)

\* the override list of ApplyOverrides, by the line of its call
OverrideLines == 216..227

\* C6 as claimed: for every name of the override list, a returned run has
\* written the attribute exactly once in ApplyOverrides, with the supplied
\* value, when the request supplies a value under that name, and not at all
\* when it does not
C6_Original ==
    \A s \in Sessions : Returned(s) =>
        \A l \in OverrideLines :
            LET a == WriteAttrCalls[l].attr
                n == Len(SelectSeq(SessionOps(s), LAMBDA o : IsWrite(o) /\ o.line = l))
            IN IF Has(value[s], a)
               THEN /\ n = 1
                    /\ \E i \in 1..Len(ops) :
                          /\ ops[i].s = s /\ IsWrite(ops[i]) /\ ops[i].line = l
                          /\ ops[i].arg = (a :> value[s][a])
               ELSE n = 0

----------------------------------------------------------------------------
(* C7 *)

\* steps per second as the claim states it: the supplied value, else 50
ClaimedStepsPerSecond(v) ==
    IF Has(v, "steps_per_second") THEN v["steps_per_second"] ELSE 50

\* the acknowledged writes of session s issued by the call at line l
WritesAt(s, l) == SelectSeq(SessionOps(s), LAMBDA o : IsWrite(o) /\ o.line = l /\ o.ok)

\* C7: a returned run has written ubisysTotalSteps = open_to_closed_s * sps,
\* ubisysTotalSteps2 = closed_to_open_s * sps and both transition-step
\* attributes = lift_to_tilt_transition_ms * sps / 1000 whenever the request
\* supplies the key, with sps the supplied steps_per_second or 50; in
\* particular open_to_closed_s: 10 with steps_per_second: 50 writes 500
C7_ConvenienceConversions ==
    \A s \in Sessions : Returned(s) =>
        LET v == value[s]
            sps == ClaimedStepsPerSecond(v)
        IN /\ Has(v, "open_to_closed_s") =>
                /\ Len(WritesAt(s, 229)) = 1
                /\ DOMAIN WritesAt(s, 229)[1].arg = {"ubisysTotalSteps"}
                /\ WritesAt(s, 229)[1].arg["ubisysTotalSteps"] = v["open_to_closed_s"] * sps
           /\ Has(v, "closed_to_open_s") =>
                /\ Len(WritesAt(s, 230)) = 1
                /\ DOMAIN WritesAt(s, 230)[1].arg = {"ubisysTotalSteps2"}
                /\ WritesAt(s, 230)[1].arg["ubisysTotalSteps2"] = v["closed_to_open_s"] * sps
           /\ Has(v, "lift_to_tilt_transition_ms") =>
                /\ Len(WritesAt(s, 231)) = 1 /\ Len(WritesAt(s, 236)) = 1
                /\ DOMAIN WritesAt(s, 231)[1].arg = {"ubisysLiftToTiltTransitionSteps"}
                /\ DOMAIN WritesAt(s, 236)[1].arg = {"ubisysLiftToTiltTransitionSteps2"}
                /\ 1000 * WritesAt(s, 231)[1].arg["ubisysLiftToTiltTransitionSteps"]
                      = v["lift_to_tilt_transition_ms"] * sps
                /\ 1000 * WritesAt(s, 236)[1].arg["ubisysLiftToTiltTransitionSteps2"]
                      = v["lift_to_tilt_transition_ms"] * sps
           /\ v = ("open_to_closed_s" :> 10) @@ ("steps_per_second" :> 50) =>
                WritesAt(s, 229)[1].arg = ("ubisysTotalSteps" :> 500)

\* open_to_closed_s: 10 with an explicit steps_per_second: 50 has been written
\* as ubisysTotalSteps = 500
C7_Witness ==
    /\ Returned(1)
    /\ value[1] = ("open_to_closed_s" :> 10) @@ ("steps_per_second" :> 50)
    /\ Len(WritesAt(1, 229)) = 1
    /\ WritesAt(1, 229)[1].arg["ubisysTotalSteps"] = 500

----------------------------------------------------------------------------
(* C8 *)

\* C8 as claimed: when the request supplies windowCoveringMode = m, the
\* EnableCalibration write is m | 0x02 and the Finalize write is m & ~0x02
C8_Original ==
    \A i \in 1..Len(ops) :
        (IsModeWrite(ops[i]) /\ Has(value[ops[i].s], "windowCoveringMode")) =>
            LET m == value[ops[i].s]["windowCoveringMode"]
                w == ops[i].arg["windowCoveringMode"]
            IN /\ ops[i].line = 197 => w = (IF CalibrationBit(m) THEN m ELSE m + 2)
               /\ ops[i].line = 245 => w = (IF CalibrationBit(m) THEN m - 2 ELSE m)

----------------------------------------------------------------------------
(* C9 *)

TupleInputs == {inputActions[i][1] : i \in 1..Len(inputActions)}
TupleEndpoints == {inputActions[i][3] : i \in 1..Len(inputActions)}

LastTemplate == templates[Len(templates)]

\* C9: after a template without input, inputs or endpoint override has been
\* processed, the cursor's input is the greatest input index of the tuples
\* just emitted plus 1, and its endpoint is the endpoint those tuples
\* reference plus 1 (NaN when that endpoint is no number)
C9_CursorAdvance ==
    (cstatus \in {"loop", "written"} /\ Len(templates) > 0
        /\ DOMAIN LastTemplate \cap {"input", "inputs", "endpoint"} = {})
    => /\ Len(inputActions) > 0
       /\ \E mx \in TupleInputs :
             /\ \A i \in TupleInputs : i <= mx
             /\ input = mx + 1
       /\ \E e \in TupleEndpoints :
             /\ TupleEndpoints = {e}
             /\ endpoint = (IF e >= 0 THEN e + 1 ELSE NaN)

\* on C4 a cover template after a dimmer_double, both without overrides: the
\* cover used inputs 2 and 3 and the shifted endpoint 6
C9_Witness ==
    /\ cmodel = "C4"
    /\ templates = <<Tpl("dimmer_double"), Tpl("cover")>>
    /\ TupleInputs = {2, 3} /\ TupleEndpoints = {6}
    /\ input = 4 /\ endpoint = 7

----------------------------------------------------------------------------
(* C10 *)

SwitchPair == <<Tpl("toggle_switch"), Tpl("on_off_switch")>>

\* the inputs and endpoints the compiled tuples reference, in order
References == [i \in 1..Len(resultingInputActions) |->
                <<resultingInputActions[i][1], resultingInputActions[i][3]>>]

\* C10 as claimed: on S2, [toggle_switch, on_off_switch] compiles to two tuples
\* for input 0 and endpoint 2, then two for input 1 and endpoint 3
C10_Original ==
    (cmodel = "S2" /\ cstatus = "written" /\ templates = SwitchPair)
    => References = << <<0, 2>>, <<0, 2>>, <<1, 3>>, <<1, 3>> >>

\* C10 amended: on S2, whose starting endpoint is 3, [toggle_switch,
\* on_off_switch] compiles to exactly four tuples: two for input 0 and
\* endpoint 3, then two for input 1 and endpoint 4
C10_SwitchPairOnS2 ==
    (cmodel = "S2" /\ cstatus = "written" /\ templates = SwitchPair)
    => References = << <<0, 3>>, <<0, 3>>, <<1, 4>>, <<1, 4>> >>

\* the pair has been compiled and written for S2
C10_Witness ==
    /\ cmodel = "S2" /\ cstatus = "written" /\ templates = SwitchPair
    /\ Len(resultingInputActions) = 4

----------------------------------------------------------------------------
(* C11 *)

\* the 13 families of the registry, as the error has to list them
RegisteredFamilies ==
    <<"toggle", "toggle_switch", "on_off_switch", "on", "off", "dimmer_single",
      "dimmer_double", "cover", "cover_switch", "cover_up", "cover_down", "scene",
      "scene_switch">>

IsRegistered(type) == \E i \in 1..Len(RegisteredFamilies) : RegisteredFamilies[i] = type

----------------------------------------------------------------------------
(* C12 *)

\* the models of the starting-endpoint table
TableModels == {"S1", "S2", "D1", "J1", "C4"}

\* C12 as claimed: for a model without entry in the starting-endpoint table the
\* call fails before any tuple is emitted and before the compiled list is
\* written
C12_Original ==
    (cmodel \notin TableModels /\ cstatus \in {"loop", "written", "error"})
    => /\ resultingInputActions = <<>>
       /\ cstatus # "written"

----------------------------------------------------------------------------
(* C13 *)

\* the scene ids the templates consumed so far supply
SuppliedSceneIds ==
    UNION {{templates[i][k] : k \in {"scene_id", "scene_id_2"} \cap DOMAIN templates[i]} :
            i \in 1..Len(templates)}

\* the recall-scene tuples compiled so far (cluster 0x05, nine elements)
SceneTuples ==
    {i \in 1..Len(resultingInputActions) : Len(resultingInputActions[i]) = 9}

\* C13: when the list holds, at any position, a scene or scene_switch template
\* without scene_id, the call has failed with an error that names the
\* template's type and the compiled list has not been written; and every
\* scene id in a compiled tuple is one a template supplies, never a default
C13_SceneIdRequired ==
    /\ \A i \in 1..Len(templates) :
          (templates[i]["type"] \in {"scene", "scene_switch"}
              /\ "scene_id" \notin DOMAIN templates[i])
          => /\ cstatus = "error"
             /\ i = Len(templates)
             /\ thrown = <<"need scene_id", templates[i]["type"]>>
    /\ \A i \in SceneTuples : resultingInputActions[i][9] \in SuppliedSceneIds

\* a scene_switch without scene_id after a valid scene: the scene's tuple was
\* compiled, the call failed
C13_Witness ==
    /\ templates = <<Tpl("scene") @@ ("scene_id" :> 7), Tpl("scene_switch")>>
    /\ cstatus = "error"
    /\ Len(resultingInputActions) = 1
    /\ thrown[2] = "scene_switch"

----------------------------------------------------------------------------
(* C14 *)

\* the number of tuples the claim gives a template
ClaimedTuples(t) ==
    CASE t["type"] \in {"toggle", "on", "off", "cover_up", "cover_down"} -> 1
      [] t["type"] \in {"toggle_switch", "on_off_switch"} -> 2
      [] t["type"] \in {"dimmer_single", "cover", "cover_switch"} -> 4
      [] t["type"] = "dimmer_double" -> 6
      [] t["type"] \in {"scene", "scene_switch"} ->
            IF "scene_id_2" \in DOMAIN t THEN 2 ELSE 1

\* the clusters the tuples of a family address: 0x06 on/off, 0x08 level
\* control, 0x02 window covering (written 0x02, 0x01), 0x05 scenes
FamilyClusters(type) ==
    CASE type \in {"toggle", "toggle_switch", "on_off_switch", "on", "off"} -> {6}
      [] type \in {"dimmer_single", "dimmer_double"} -> {6, 8}
      [] type \in {"cover", "cover_switch", "cover_up", "cover_down"} -> {2}
      [] type \in {"scene", "scene_switch"} -> {5}

RECURSIVE ClaimedTotal(_, _)
ClaimedTotal(list, n) ==
    IF n = 0 THEN 0 ELSE ClaimedTotal(list, n - 1) + ClaimedTuples(list[n])

\* C14: after every template the loop has processed, the template's group has
\* the number of tuples of its family (scenes: 1 with scene_id only, 2 with
\* scene_id_2 too), and the compiled list is the groups in template order:
\* group i starts after the tuples of templates 1..i-1, addresses the clusters
\* of family i, and the last group is the one just emitted
C14_TuplesPerFamily ==
    (cstatus \in {"loop", "written"} /\ Len(templates) > 0)
    => /\ Len(inputActions) = ClaimedTuples(LastTemplate)
       /\ Len(resultingInputActions) = ClaimedTotal(templates, Len(templates))
       /\ \A i \in 1..Len(templates) :
             \A k \in 1..ClaimedTuples(templates[i]) :
                resultingInputActions[ClaimedTotal(templates, i - 1) + k][4]
                    \in FamilyClusters(templates[i]["type"])
       /\ \A k \in 1..Len(inputActions) :
             resultingInputActions[ClaimedTotal(templates, Len(templates) - 1) + k]
                = inputActions[k]

\* a scene with both scene ids followed by a dimmer_double: 2 + 6 tuples
C14_Witness ==
    /\ templates = <<Tpl("scene") @@ ("scene_id" :> 7) @@ ("scene_id_2" :> 8),
                     Tpl("dimmer_double")>>
    /\ cstatus = "written"
    /\ Len(resultingInputActions) = 8
    /\ Len(inputActions) = 6

----------------------------------------------------------------------------
(* C15 *)

\* C15: when the loop processes a template of a double-input family, the first
\* half of its tuples references the first input of the pair and the second
\* half the second, where the pair is template.inputs when given and else
\* <<i, i + 1>> for the cursor's input i (template.input when given)
C15_DoubleInputPair ==
    [][(/\ cstatus = "loop" /\ cstatus' = "loop"
        /\ Len(templates') = Len(templates) + 1
        /\ templates'[Len(templates')]["type"] \in {"dimmer_double", "cover", "cover_switch"})
       => LET t == templates'[Len(templates')]
              i == IF "input" \in DOMAIN t THEN t["input"] ELSE input
              pair == IF "inputs" \in DOMAIN t THEN t["inputs"] ELSE <<i, i + 1>>
              half == Len(inputActions') \div 2
          IN /\ half > 0
             /\ \A k \in 1..Len(inputActions') :
                   inputActions'[k][1] = (IF k <= half THEN pair[1] ELSE pair[2])
      ]_vars

\* a dimmer_double at cursor input 2, after another one: inputs 2 and 3 only
C15_Witness ==
    /\ templates = <<Tpl("dimmer_double"), Tpl("dimmer_double")>>
    /\ cstatus = "loop"
    /\ TupleInputs = {2, 3}
    /\ Len(inputActions) = 6

----------------------------------------------------------------------------
(* C16 *)

----------------------------------------------------------------------------
(* C17 *)

IsSetupWrite(o) == o.call \in {"write", "writeStructured"}

\* the request key a write call of convertSet belongs to, by its line
KeyOfLine(line) ==
    CASE line \in {365, 381} -> "input_configurations"
      [] line \in {392, 408} -> "input_actions"
      [] line \in {587, 603} -> "input_action_templates"

\* the write calls issued for a key
CallsFor(k) == SelectSeq(sops, LAMBDA o : IsSetupWrite(o) /\ KeyOfLine(o.line) = k)

\* structured write is supported by firmware 1.9.0 and up
StructuredSupported == softwareBuildID.text \in {"1.9.0", "1.10.0", "2.3.1"}

\* the payload a key stands for: its own value, or the compiled templates
PayloadOf(k) ==
    IF k = "input_action_templates" THEN resultingInputActions ELSE svalue[k]

\* C17: every write call of convertSet is a writeStructured (attribute by ID,
\* data type ARRAY) when structured write is supported and else a write
\* (attribute by name); in either form it carries element type DATA8 for
\* input_configurations and OCTET_STR for input_actions and the compiled
\* templates, and the payload as elements; no payload is written twice, and a
\* call that returns has issued exactly one call for each key present
C17_OneCallPerPayload ==
    /\ \A i \in 1..Len(sops) :
          IsSetupWrite(sops[i]) =>
             LET o == sops[i]
                 k == KeyOfLine(o.line)
             IN /\ IF StructuredSupported
                   THEN o.call = "writeStructured" /\ o.by = "ID" /\ o.dataType = "ARRAY"
                   ELSE o.call = "write" /\ o.by = "name"
                /\ o.attribute = (IF k = "input_configurations"
                                  THEN "inputConfigurations" ELSE "inputActions")
                /\ o.elementType = (IF k = "input_configurations"
                                    THEN "DATA8" ELSE "OCTET_STR")
                /\ o.elements = PayloadOf(k)
    /\ \A k \in SetupKeys :
          /\ Len(CallsFor(k)) <= 1
          /\ spos = "returned" => Len(CallsFor(k)) = (IF k \in DOMAIN svalue THEN 1 ELSE 0)

\* a device with firmware 1.10.0 has been written all three payloads, each
\* with one writeStructured
C17_Witness ==
    /\ spos = "returned"
    /\ softwareBuildID.text = "1.10.0"
    /\ DOMAIN svalue = SetupKeys
    /\ Len(resultingInputActions) > 0
    /\ \A k \in SetupKeys :
          Len(CallsFor(k)) = 1 /\ CallsFor(k)[1].call = "writeStructured"

----------------------------------------------------------------------------
(* C18 *)

\* the keys present in the request, in the order the claim gives
ExpectedKeys ==
    SelectSeq(<<"input_configurations", "input_actions", "input_action_templates">>,
              LAMBDA k : k \in DOMAIN svalue)

\* the keys of the write calls issued, in the order issued
WrittenKeys ==
    LET w == SelectSeq(sops, IsSetupWrite)
    IN [i \in 1..Len(w) |-> KeyOfLine(w[i].line)]

SetupEnded == spos \in {"returned", "threw"}

\* the two reads of a successful run end the log
ReadBack ==
    /\ Len(sops) >= 2
    /\ sops[Len(sops) - 1].call = "read" /\ sops[Len(sops) - 1].attribute = "inputConfigurations"
    /\ sops[Len(sops)].call = "read" /\ sops[Len(sops)].attribute = "inputActions"

\* C18 as claimed: whenever the call has ended, it has issued exactly one write
\* for every key present, carrying the key's payload, in the order
\* configurations, actions, templates, and none for an absent key, whatever
\* happened to the other keys
C18_Original ==
    SetupEnded
    => /\ WrittenKeys = ExpectedKeys
       /\ \A k \in DOMAIN svalue : CallsFor(k)[1].elements = PayloadOf(k)

\* C18 amended: the keys are applied one after the other and a failure ends
\* the call. The writes issued are, in order, those of a prefix of the keys
\* present (configurations, actions, templates), each carrying its key's
\* payload; a call that returns has written every key present and then read
\* inputConfigurations and inputActions; a call that throws has either a
\* rejected call as its last one, or a template error after the writes of
\* the raw keys and before any write of compiled actions, and in both cases
\* the later keys are not written and nothing is read back
C18_KeysAppliedInOrderUntilFailure ==
    /\ Len(WrittenKeys) <= Len(ExpectedKeys)
    /\ WrittenKeys = SubSeq(ExpectedKeys, 1, Len(WrittenKeys))
    /\ \A k \in SetupKeys : Len(CallsFor(k)) > 0 => CallsFor(k)[1].elements = PayloadOf(k)
    /\ \A i \in 1..Len(sops) : ~sops[i].ok => (i = Len(sops) /\ spos = "threw")
    /\ spos = "returned"
          => /\ WrittenKeys = ExpectedKeys
             /\ Len(sops) = Len(WrittenKeys) + 2
             /\ ReadBack
    /\ spos = "threw"
          => \/ /\ Len(sops) > 0 /\ ~sops[Len(sops)].ok
                /\ thrown = <<>>
                /\ Len(SelectSeq(sops, LAMBDA o : o.call = "read" /\ o.ok)) <= 1
             \/ /\ thrown # <<>>
                /\ "input_action_templates" \in DOMAIN svalue
                /\ Len(CallsFor("input_action_templates")) = 0
                /\ Len(WrittenKeys) = Len(ExpectedKeys) - 1
                /\ \A i \in 1..Len(sops) : sops[i].ok /\ sops[i].call # "read"

\* an invalid template list after both raw keys: the raw payloads were written,
\* the compiled actions were not, and nothing was read back
C18_Witness ==
    /\ spos = "threw"
    /\ DOMAIN svalue = SetupKeys
    /\ thrown # <<>>
    /\ Len(sops) = 2
    /\ WrittenKeys = <<"input_configurations", "input_actions">>

----------------------------------------------------------------------------
(* C19 *)

\* the values the claim gives the eight attributes reset before calibration
ClaimedReset ==
    ("installedOpenLimitLiftCm" :> 0) @@ ("installedClosedLimitLiftCm" :> 240) @@
    ("installedOpenLimitTiltDdegree" :> 0) @@ ("installedClosedLimitTiltDdegree" :> 900) @@
    ("ubisysLiftToTiltTransitionSteps" :> 65535) @@ ("ubisysTotalSteps" :> 65535) @@
    ("ubisysLiftToTiltTransitionSteps2" :> 65535) @@ ("ubisysTotalSteps2" :> 65535)

\* what an operation of the log is, for the order of the learning sequence
StepName(o) ==
    CASE o.op = "command" -> o.arg
      [] o.op = "sleep" -> IF o.arg = 5 THEN "delay 5" ELSE "delay"
      [] o.op = "read" ->
            IF ~IsPoll(o) THEN "read"
            ELSE IF o.res = 0 THEN "WaitStopped" ELSE "moving"
      [] o.op = "write" ->
            IF DOMAIN o.arg = {"windowCoveringMode"}
            THEN (IF CalibrationBit(o.arg["windowCoveringMode"])
                  THEN "mode with 0x02" ELSE "mode")
            ELSE IF DOMAIN o.arg = DOMAIN ClaimedReset /\ o.arg = ClaimedReset
                 THEN "reset" ELSE "write"

\* the steps the claim orders; the delays of 2 s and the polls that found the
\* cover moving are the waiting between them
LearningNames ==
    {"upOpen", "downClose", "stop", "WaitStopped", "reset", "mode with 0x02",
     "delay 5"}

\* the steps of a session, in the order issued
LearningSteps(s) ==
    LET q == SelectSeq(ops, LAMBDA o : o.s = s /\ StepName(o) \in LearningNames)
    IN [i \in 1..Len(q) |-> StepName(q[i])]

\* the commands and writes of the learning sequence, in the claimed order
ClaimedLearningSteps ==
    <<"upOpen", "WaitStopped", "reset", "mode with 0x02", "downClose", "delay 5",
      "stop", "upOpen", "WaitStopped", "downClose", "WaitStopped", "upOpen",
      "WaitStopped">>

\* BaseConfig has written a windowCoveringMode that the request supplies with
\* bit 0x02 set: a write before the learning sequence
SuppliedCalibrationMode(s) ==
    /\ Has(value[s], "windowCoveringMode")
    /\ CalibrationBit(value[s]["windowCoveringMode"])

\* C19: a calibrating run that returns has issued, between BaseConfig and
\* ApplyOverrides, exactly the claimed commands and writes in the claimed
\* order: upOpen, WaitStopped, the reset of the eight attributes, the mode
\* with bit 0x02, downClose, 5 s, stop, a delay, upOpen, WaitStopped,
\* downClose, WaitStopped, upOpen, WaitStopped; the only repetition is the
\* polling of a WaitStopped
C19_LearningSequence ==
    \A s \in Sessions :
        (Returned(s) /\ Has(value[s], "calibrate"))
        => /\ LearningSteps(s) =
                 (IF SuppliedCalibrationMode(s) THEN <<"mode with 0x02">> ELSE <<>>)
                 \o ClaimedLearningSteps
           /\ \E i \in 1..(Len(ops) - 1) :
                 /\ ops[i].s = s /\ StepName(ops[i]) = "stop"
                 /\ ops[i + 1].s = s /\ StepName(ops[i + 1]) = "delay"

\* a calibrating run has returned after the cover was once found moving
C19_Witness ==
    /\ Returned(1) /\ Has(value[1], "calibrate")
    /\ polls = MaxPolls
    /\ Len(SelectSeq(ops, IsPoll)) = 4 + MaxPolls
    /\ Len(SelectSeq(ops, IsCommand)) = 6

----------------------------------------------------------------------------
(* C20 *)

IsDelay(o, seconds) == o.op = "sleep" /\ o.arg = seconds
Stopped(o) == IsPoll(o) /\ o.ok /\ o.res = 0
FoundMoving(o) == IsPoll(o) /\ o.ok /\ o.res # 0

\* the movements convertSet waits for: every upOpen, and the downClose that
\* counts the steps from open to closed (the first downClose is stopped by
\* command after a fixed time)
StartsWait(q, i) ==
    /\ IsCommand(q[i]) /\ q[i].ok
    /\ \/ q[i].arg = "upOpen"
       \/ q[i].arg = "downClose" /\ \E j \in 1..(i - 1) : IsCommand(q[j]) /\ q[j].arg = "stop"

\* what C20 says of the last operation of a log q
WaitDiscipline(q, n) ==
    /\ IsPoll(q[n]) => (n > 1 /\ IsDelay(q[n - 1], 2))
    /\ (n > 1 /\ StartsWait(q, n - 1)) => IsDelay(q[n], 2)
    /\ (n > 2 /\ StartsWait(q, n - 2)) => IsPoll(q[n])
    /\ (n > 1 /\ IsPoll(q[n - 1])) => (q[n - 1].ok /\ IsDelay(q[n], 2))
    /\ (n > 2 /\ FoundMoving(q[n - 2])) => IsPoll(q[n])
    /\ (n > 2 /\ Stopped(q[n - 2])) => ~IsPoll(q[n])
    /\ (IsWrite(q[n]) \/ IsCommand(q[n])) =>
          \A j \in 1..(n - 1) :
             (IsPoll(q[j]) /\ \A k \in (j + 1)..(n - 1) : ~IsPoll(q[k]))
             => (Stopped(q[j]) /\ j + 1 < n /\ IsDelay(q[j + 1], 2))

\* C20, for the operation a session issued last (the log only grows, so every
\* operation is the last one in some state): a poll comes right after a delay
\* of 2 s; a movement that is waited for is followed by that delay and a poll;
\* a poll that found the cover moving is followed by the delay and another
\* poll; a poll that read 0 is followed by one delay of 2 s and no further
\* poll of that wait; and a command or write is never issued unless the most
\* recent poll read 0 and the delay after it has passed
C20_WaitUntilStopped ==
    \A s \in {ops[i].s : i \in 1..Len(ops)} :
        WaitDiscipline(SessionOps(s), Len(SessionOps(s)))

\* a wait whose first poll found the cover moving and whose second read 0,
\* followed by its delay and the next step of the run
C20_Witness ==
    \E i \in 1..Len(ops) :
        /\ i + 4 <= Len(ops)
        /\ FoundMoving(ops[i]) /\ IsDelay(ops[i + 1], 2) /\ Stopped(ops[i + 2])
        /\ IsDelay(ops[i + 3], 2)
        /\ IsWrite(ops[i + 4]) \/ IsCommand(ops[i + 4])


----------------------------------------------------------------------------
(* Settle delays after the writes of windowCoveringMode *)

\* the session is about to sleep: a sleepSeconds statement or the delay of a
\* writeAttrFromJson call
AboutToSleep(s) ==
    \/ Sub(s) = "delay"
    \/ Sub(s) = "" /\ Line(s) \in DOMAIN SleepLines

\* the log only grows, so the property of every write is the property of the
\* latest one at every moment
SettleDelayFollows(s) ==
    LET q == SessionOps(s)
        n == Len(q)
    IN /\ (n >= 1 /\ IsModeWrite(q[n]) /\ q[n].ok /\ status[s] = "running")
            => AboutToSleep(s)
       /\ (n >= 2 /\ IsModeWrite(q[n - 1]) /\ q[n - 1].ok)
            => IsDelay(q[n], 2)

\* C21: every successful write of windowCoveringMode by a calibration session
\* (lines 163, 170, 197, 245) is followed, before any other operation of the
\* session, by a delay of 2 seconds
C21_SettleDelayAfterModeWrite == SettleDelayFollows(1)

\* a calibrating run that cleared the bit, wrote a supplied mode, enabled and
\* finalised calibration, each followed by its delay
C21_Witness ==
    /\ Returned(1) /\ hasCalibrate(value[1])
    /\ {o.line : o \in {ops[i] : i \in {j \in 1..Len(ops) : IsModeWrite(ops[j])}}}
         = {163, 170, 197, 245}


----------------------------------------------------------------------------
(* Settle: the read and the conditional write that open convertSet *)

\* the write at line 163
IsSettleWrite(o) == IsModeWrite(o) /\ o.line = 163

SettleStep(s) ==
    LET q == SessionOps(s)
        n == Len(q)
    IN /\ n >= 1 => /\ q[1].op = "read"
                    /\ q[1].arg = <<"windowCoveringMode">>
       /\ (n = 1 /\ q[1].ok /\ status[s] = "running")
            => (Line(s) = 163 <=> HasBit(q[1].res, modeCalibrationBitMask))
       /\ (n >= 2 /\ q[1].ok)
            => /\ IsSettleWrite(q[2]) <=> HasBit(q[1].res, modeCalibrationBitMask)
               /\ IsSettleWrite(q[2])
                    => q[2].arg["windowCoveringMode"] + modeCalibrationBitMask = q[1].res
       /\ (n >= 1 /\ IsSettleWrite(q[n])) => n = 2

\* C22: the first transport operation of a convertSet run reads
\* windowCoveringMode; the write of line 163 is the next operation exactly when
\* the value read has bit 0x02 set, it carries the value read with that bit
\* alone cleared, and no such write is issued otherwise
C22_SettleStep == entry[1] = "convertSet" => SettleStep(1)

\* the device reported 3 and the session wrote 1
C22_Witness ==
    /\ entry[1] = "convertSet" /\ Len(ops) >= 3
    /\ ops[1].res = 3 /\ IsSettleWrite(ops[2]) /\ ops[2].ok
    /\ ops[2].arg = ("windowCoveringMode" :> 1)
    /\ ~IsModeWrite(ops[3])


----------------------------------------------------------------------------
(* The report: the three reads of convertGet *)

\* one attribute of each group the report is said to read: geometry, live
\* position and status, vendor step counts
ReportGroups == <<"physicalClosedLimitLiftCm", "currentPositionLiftPercentage", "ubisysTotalSteps">>

\* the operation is the k-th read of the report
IsReportRead(o, k) ==
    /\ o.op = "read"
    /\ \E i \in 1..Len(o.arg) : o.arg[i] = ReportGroups[k]
    /\ \A j \in 1..3 : j # k => \A i \in 1..Len(o.arg) : o.arg[i] # ReportGroups[j]

ReportDiscipline(s) ==
    LET q == SessionOps(s)
        n == Len(q)
    IN /\ entry[s] = "convertGet"
            => /\ n <= 3
               /\ n >= 1 => IsReportRead(q[n], n)
               /\ status[s] = "returned" => n = 3
       /\ (entry[s] = "convertSet" /\ ~hasCalibrate(value[s]))
            => (n >= 2 => q[n].op # "read")
       /\ (entry[s] = "convertSet" /\ hasCalibrate(value[s]) /\ status[s] = "returned")
            => /\ n >= 5
               /\ IsModeWrite(q[n - 4]) /\ q[n - 4].line = 245
               /\ IsDelay(q[n - 3], 2)
               /\ \A k \in 1..3 : IsReportRead(q[n - 3 + k], k)
               /\ \A i \in 1..(n - 5) : ~(\E k \in 1..3 : IsReportRead(q[i], k))

\* C23: convertGet issues three reads (geometry, live position and status,
\* vendor step counts, in that order) and nothing else; a convertSet that runs
\* the calibration ends with the write of line 245, its delay and these three
\* reads; a convertSet without calibration reads nothing back
C23_ReportReads == ReportDiscipline(1)

\* a calibrating convertSet has returned after its read-back
C23_Witness ==
    /\ Returned(1) /\ hasCalibrate(value[1])
    /\ Len(ops) >= 5
    /\ IsReportRead(ops[Len(ops)], 3) /\ ops[Len(ops)].ok

\* a convertGet on its own has returned after its three reads
C23_ReportWitness ==
    /\ entry[1] = "convertGet" /\ status[1] = "returned"
    /\ Len(ops) = 3 /\ \A k \in 1..3 : IsReportRead(ops[k], k)


----------------------------------------------------------------------------
(* A raw step attribute and its convenience key in one request *)

\* attribute, the request keys that name it directly (the documented name and
\* the key line 141 really looks up), its convenience key and the divisor of
\* the conversion
ConveniencePairs ==
    {<<"ubisysTotalSteps", {"ubisysTotalSteps", MangledTotalSteps}, "open_to_closed_s", 1>>,
     <<"ubisysTotalSteps2", {"ubisysTotalSteps2"}, "closed_to_open_s", 1>>,
     <<"ubisysLiftToTiltTransitionSteps", {"ubisysLiftToTiltTransitionSteps"},
       "lift_to_tilt_transition_ms", 1000>>,
     <<"ubisysLiftToTiltTransitionSteps2", {"ubisysLiftToTiltTransitionSteps2"},
       "lift_to_tilt_transition_ms", 1000>>}

\* the successful writes of a session that carry the attribute
WritesTo(s, attr) ==
    SelectSeq(SessionOps(s), LAMBDA o : IsWrite(o) /\ o.ok /\ attr \in DOMAIN o.arg)

\* C24: a returned run whose request names a step attribute both directly and
\* through its convenience key has written that attribute last with the
\* converted convenience value
C24_ConvenienceWins ==
    Returned(1) =>
        \A p \in ConveniencePairs :
            ((\E k \in p[2] : Has(value[1], k)) /\ Has(value[1], p[3]))
            => /\ Len(WritesTo(1, p[1])) >= 1
               /\ Last(WritesTo(1, p[1])).arg
                    = (p[1] :> ((value[1][p[3]] * ClaimedStepsPerSecond(value[1])) \div p[4]))

\* the raw key was written as 777 and the convenience key then as 10 * 50
C24_Witness ==
    /\ Returned(1)
    /\ value[1] = (MangledTotalSteps :> 777) @@ ("open_to_closed_s" :> 10)
    /\ Len(WritesTo(1, "ubisysTotalSteps")) = 2
    /\ WritesTo(1, "ubisysTotalSteps")[1].arg["ubisysTotalSteps"] = 777
    /\ WritesTo(1, "ubisysTotalSteps")[2].arg["ubisysTotalSteps"] = 500


----------------------------------------------------------------------------
(* Termination of convertSet: waitUntilStopped without a cap *)

\* the keys that decide the path of a run: the learning sequence, a write
\* with a delay, a write without one
LiveKeys == {"calibrate", "windowCoveringMode", "open_to_closed_s"}

LiveRequests == UNION {RequestsOn(S) : S \in SubsetsUpTo(LiveKeys, MaxKeys)}

\* lines 125-128 once the log holds MaxPolls moving answers: the actuator
\* answers a moving status again and the loop goes round, any number of times;
\* these further rounds are not logged
StillMoving(s) ==
    /\ IsTransportAt(s) /\ Sub(s) = "read"
    /\ polls = MaxPolls
    /\ \E operationalStatus \in MovingValues :
          Goto(s, <<Line(s), IF Moving(operationalStatus) THEN "again" ELSE "stopped">>)
    /\ UNCHANGED <<entry, value, mode, ops, devMode, polls, tplvars, fzvars>>

\* line 124 in such a round
SleepAgain(s) ==
    /\ status[s] = "running" /\ Sub(s) = "again"
    /\ Goto(s, <<Line(s), "read">>)
    /\ UNCHANGED <<entry, value, mode, ops, devMode, polls, tplvars, fzvars>>

InitJ1Live ==
    /\ devMode \in ModeValues
    /\ polls = 0
    /\ ops = <<>>
    /\ \E v \in LiveRequests :
          /\ entry = (1 :> "convertSet") @@ (2 :> "none")
          /\ value = (1 :> v) @@ (2 :> EmptyRequest)
          /\ mode = (1 :> 0) @@ (2 :> 0)
          /\ pc = (1 :> Start("convertSet", v, 0)) @@ (2 :> <<0, "">>)
          /\ status = (1 :> "running") @@ (2 :> "idle")
    /\ TplIdle
    /\ FzIdle

\* every transport operation succeeds: no rejection among the steps
NextJ1Live ==
    \/ ReadMode(1)
    \/ WriteMode(1)
    \/ WriteAttrFromJson(1)
    \/ DelayAfterWrite(1)
    \/ SleepSeconds(1)
    \/ Command(1)
    \/ WriteReset(1)
    \/ WaitSleep(1)
    \/ WaitRead(1)
    \/ StillMoving(1)
    \/ SleepAgain(1)
    \/ WaitStopped(1)
    \/ ConvertGetRead(1)

\* a read of operationalStatus that finds the actuator stopped
StopReported == WaitRead(1) /\ pc'[1][2] = "stopped"

\* variant: the actuator is obliged to stop only while a read stays pending,
\* which the sleep between two reads never allows
ActuatorMayKeepMoving == WF_vars(StopReported)

\* the actuator eventually reports operationalStatus 0 to a session that
\* keeps asking
ActuatorStops == SF_vars(StopReported)

\* the event loop resumes every continuation whose await has settled, and the
\* actuator stops
SpecJ1Live == InitJ1Live /\ [][NextJ1Live]_vars /\ WF_vars(NextJ1Live) /\ ActuatorStops

\* C25: when every transport operation succeeds and the actuator eventually
\* reports operationalStatus 0, every convertSet run returns; weakening the
\* assumption on the actuator leaves a run that polls for ever
C25_ConvertSetTerminates == <>(status[1] = "returned")

\* a run that ran the learning sequence has returned after the actuator
\* reported a moving status as often as the log records
C25_Witness ==
    /\ Returned(1) /\ hasCalibrate(value[1])
    /\ polls = MaxPolls
    /\ Len(SelectSeq(ops, Stopped)) = 4


----------------------------------------------------------------------------
(* The endpoint of cover templates on C4 *)

\* the cover families as the claim lists them
CoverFamilies == {"cover", "cover_switch", "cover_up", "cover_down"}

\* the loop has just processed a template
Processed ==
    /\ cstatus = "loop" /\ cstatus' = "loop"
    /\ Len(templates') = Len(templates) + 1

\* C26: when the loop processes a template whose endpoint resolves to e
\* (template.endpoint, else the cursor), every tuple references e, except that
\* a cover family on C4 with e in 1..4 references e + 4; no cover tuple on C4
\* references an endpoint in 1..4
C26_C4CoverEndpoint ==
    [][Processed
       => LET t == templates'[Len(templates')]
              e == IF "endpoint" \in DOMAIN t THEN t["endpoint"] ELSE endpoint
              refs == {inputActions'[k][3] : k \in 1..Len(inputActions')}
              cover == cmodel = "C4" /\ t["type"] \in CoverFamilies
          IN /\ refs # {}
             /\ (cover /\ e \in 1..4) => refs = {e + 4}
             /\ (cover /\ e >= 5) => refs = {e}
             /\ cover => refs \cap 1..4 = {}
             /\ ~cover => refs = {e}
      ]_vars

\* on C4 a cover_up after a toggle: the cursor's endpoint 2 became 6
C26_Witness ==
    /\ cmodel = "C4" /\ cstatus = "loop"
    /\ templates = <<Tpl("toggle"), Tpl("cover_up")>>
    /\ TupleEndpoints = {6}
    /\ endpoint = 7


----------------------------------------------------------------------------
(* The move tuples of the dimmer families *)

\* the move tuples among those just emitted: the ones with a rate byte
MoveTuples == SelectSeq(inputActions, LAMBDA a : Len(a) = 8)

ClaimedMoveCmd(t, k) == IF Flag(t, "no_onoff") \/ Flag(t, k) THEN 1 ELSE 5
\* the rate as the claim states it: template.rate when specified, else 50
ClaimedMoveRate(t) == IF Has(t, "rate") THEN t["rate"] ELSE 50

\* C27 as claimed: the move-up and move-down tuples of a dimmer template carry
\* command 0x01 or 0x05 according to the no_onoff flags of their direction,
\* and as rate template.rate whenever it is specified, 50 otherwise
C27_Original ==
    (cstatus \in {"loop", "written"} /\ Len(templates) > 0
        /\ LastTemplate["type"] \in {"dimmer_single", "dimmer_double"})
    => /\ Len(MoveTuples) = 2
       /\ MoveTuples[1][7] = 0
       /\ MoveTuples[1][6] = ClaimedMoveCmd(LastTemplate, "no_onoff_up")
       /\ MoveTuples[2][7] = 1
       /\ MoveTuples[2][6] = ClaimedMoveCmd(LastTemplate, "no_onoff_down")
       /\ \A i \in 1..2 : MoveTuples[i][8] = ClaimedMoveRate(LastTemplate)


----------------------------------------------------------------------------
(* The group id of the scene families *)

\* the tuple ends with the low byte of g, its high byte and the scene id
EndsWithScene(a, g, sceneId) ==
    /\ Len(a) = 9
    /\ a[7] \in 0..255 /\ a[7] + 256 * a[8] = g
    /\ a[9] = sceneId

----------------------------------------------------------------------------
(* Two configure_j1 sessions on one device *)

\* the request of the calibrating session and that of the session that
\* arrives while it runs
PairRequest == ("calibrate" :> TRUE) @@ ("windowCoveringMode" :> 1)
OtherRequest == EmptyRequest

\* line 116: convertSet is called for a second message while the first call
\* is suspended at an await
Invoke(s) ==
    /\ status[s] = "idle" /\ entry[s] = "convertSet"
    /\ status' = [status EXCEPT ![s] = "running"]
    /\ UNCHANGED <<entry, value, pc, mode, ops, devMode, polls, tplvars, fzvars>>

\* session 1 calibrates; session 2 may be invoked at any moment. The actuator
\* stops before the first poll (the log's share of moving answers is spent),
\* and no operation is rejected
InitJ1Pair ==
    /\ devMode \in ModeValues
    /\ polls = MaxPolls
    /\ ops = <<>>
    /\ entry = (1 :> "convertSet") @@ (2 :> "convertSet")
    /\ value = (1 :> PairRequest) @@ (2 :> OtherRequest)
    /\ mode = (1 :> 0) @@ (2 :> 0)
    /\ pc = (1 :> Start("convertSet", PairRequest, 0)) @@ (2 :> Start("convertSet", OtherRequest, 0))
    /\ status = (1 :> "running") @@ (2 :> "idle")
    /\ TplIdle
    /\ FzIdle

\* the sessions interleave at their awaits
NextJ1Pair ==
    \/ Invoke(2)
    \/ \E s \in Sessions : ReadMode(s)
    \/ \E s \in Sessions : WriteMode(s)
    \/ \E s \in Sessions : WriteAttrFromJson(s)
    \/ \E s \in Sessions : DelayAfterWrite(s)
    \/ \E s \in Sessions : SleepSeconds(s)
    \/ \E s \in Sessions : Command(s)
    \/ \E s \in Sessions : WriteReset(s)
    \/ \E s \in Sessions : WaitSleep(s)
    \/ \E s \in Sessions : WaitRead(s)
    \/ \E s \in Sessions : WaitStopped(s)
    \/ \E s \in Sessions : ConvertGetRead(s)

SpecJ1Pair == InitJ1Pair /\ [][NextJ1Pair]_vars

\* the session has written the enabling mode (line 197) and not yet the
\* finalizing one (line 245)
BetweenEnableAndFinalize(s) ==
    /\ entry[s] = "convertSet" /\ hasCalibrate(value[s])
    /\ Line(s) >= 198 /\ Line(s) <= 245

\* C29: while no other session has been invoked, the device's calibration bit
\* is set from the enabling write of a session until its finalizing write
C29_BitHeldWhileAlone ==
    (status[2] = "idle" /\ BetweenEnableAndFinalize(1))
    => HasBit(devMode, modeCalibrationBitMask)

\* session 1 is between its enabling and its finalizing write, and the
\* device's bit is clear: the latest mode write is the Settle write of
\* session 2, which read the bit session 1 had set
C29_Witness ==
    /\ BetweenEnableAndFinalize(1) /\ status[1] = "running"
    /\ ~HasBit(devMode, modeCalibrationBitMask)
    /\ Len(ModeWrites(2)) = 1
    /\ Last(SelectSeq(ops, LAMBDA o : IsModeWrite(o) /\ o.ok)).s = 2
    /\ Last(ModeWrites(2)).line = 163


----------------------------------------------------------------------------
(* fz.configure_device_setup.convert (lines 96-109) *)

\* most messages converted in one behaviour
MaxReports == 3

\* msg.data.inputConfigurations: one byte per input
InputConfigurationsValues == {<<0, 0>>, <<128, 0>>}

\* msg.data.inputActions: a list of elements, each an object given by its own
\* properties in order, as <<key, value>> pairs
Element(a, b, c) == << <<"0", a>>, <<"1", b>>, <<"2", c>> >>
InputActionsValues == {<< Element(0, 13, 2) >>, << Element(0, 7, 2), Element(1, 6, 3) >>}

\* msg.data: the attributes of one message; an attribute that is present
\* has a value (never null)
MsgData ==
    {EmptyRequest}
    \cup {("inputConfigurations" :> c) : c \in InputConfigurationsValues}
    \cup {("inputActions" :> a) : a \in InputActionsValues}
    \cup {("inputConfigurations" :> c) @@ ("inputActions" :> a) :
            c \in InputConfigurationsValues, a \in InputActionsValues}

\* line 105: Object.values(el)
ObjectValues(el) == [i \in 1..Len(el) |-> el[i][2]]

\* variant: the result starts from an empty object for every message
fzConvertFresh(st, data) ==
    LET r1 == IF Has(data, "inputConfigurations")
              THEN ("input_configurations" :> data["inputConfigurations"])
              ELSE EmptyRequest
        r2 == IF Has(data, "inputActions")
              THEN ("input_actions" :>
                      [i \in 1..Len(data["inputActions"]) |-> ObjectValues(data["inputActions"][i])])
                   @@ r1
              ELSE r1
    IN State(TRUE, r2)

\* lines 99-107: the configure_device_setup object of the payload returned
fzConvert(st, data) ==
    LET result == IF st.defined THEN st.object ELSE EmptyRequest
        r1 == IF Has(data, "inputConfigurations")
              THEN ("input_configurations" :> data["inputConfigurations"]) @@ result
              ELSE result
        r2 == IF Has(data, "inputActions")
              THEN ("input_actions" :>
                      [i \in 1..Len(data["inputActions"]) |-> ObjectValues(data["inputActions"][i])])
                   @@ r1
              ELSE r1
    IN State(TRUE, r2)

\* one message of the cluster is converted and the payload published: the
\* published object is what meta.state holds at the next message
Message(type) ==
    /\ Len(reports) < MaxReports
    /\ \E data \in MsgData :
          /\ reports' = Append(reports, [type |-> type, data |-> data])
          /\ state' = fzConvert(state, data)
    /\ UNCHANGED <<j1vars, tplvars>>

\* line 98: type: ["attributeReport", "readResponse"]
AttributeReport == Message("attributeReport")
ReadResponse == Message("readResponse")

\* nothing published yet, or an object published before
InitFz ==
    /\ state \in {NoState, State(TRUE, EmptyRequest),
                  State(TRUE, ("input_configurations" :> <<1, 1>>) @@
                              ("input_actions" :> << <<9, 9, 9>> >>))}
    /\ reports = <<>>
    /\ TplIdle
    /\ J1Idle

NextFz ==
    \/ AttributeReport
    \/ ReadResponse

SpecFz == InitFz /\ [][NextFz]_vars

\* the messages so far that carried the attribute
Carrying(attribute) == {i \in 1..Len(reports) : attribute \in DOMAIN reports[i].data}

\* the value of the attribute in the latest message that carried it
MostRecent(attribute) ==
    reports[CHOOSE i \in Carrying(attribute) : \A j \in Carrying(attribute) : j <= i].data[attribute]

\* the value-list form of a list of elements
ValueLists(actions) ==
    [i \in 1..Len(actions) |-> [k \in 1..Len(actions[i]) |-> actions[i][k][2]]]

\* the key is in both objects with one value, or in neither
SameKey(a, b, k) ==
    /\ k \in DOMAIN a <=> k \in DOMAIN b
    /\ k \in DOMAIN a => a[k] = b[k]

\* C30: after any sequence of messages the published input_configurations
\* is the inputConfigurations of the latest message that carried it and
\* input_actions the value lists of the inputActions of the latest message
\* that carried it; a message that lacks one of the two leaves its key as it
\* was published before
C30_MergesReports ==
    /\ [](/\ Carrying("inputConfigurations") # {}
             => /\ state.defined /\ "input_configurations" \in DOMAIN state.object
                /\ state.object["input_configurations"] = MostRecent("inputConfigurations")
          /\ Carrying("inputActions") # {}
             => /\ state.defined /\ "input_actions" \in DOMAIN state.object
                /\ state.object["input_actions"] = ValueLists(MostRecent("inputActions")))
    /\ [][Len(reports') = Len(reports) + 1
          => LET data == reports'[Len(reports')].data
             IN /\ "inputConfigurations" \notin DOMAIN data
                   => SameKey(state'.object, state.object, "input_configurations")
                /\ "inputActions" \notin DOMAIN data
                   => SameKey(state'.object, state.object, "input_actions")
       ]_vars

\* three messages: both attributes, then inputActions alone, then
\* inputConfigurations alone; each key holds its latest value
C30_Witness ==
    /\ Len(reports) = 3
    /\ DOMAIN reports[1].data = {"inputConfigurations", "inputActions"}
    /\ reports[2].data = ("inputActions" :> << Element(0, 7, 2), Element(1, 6, 3) >>)
    /\ reports[3].data = ("inputConfigurations" :> <<128, 0>>)
    /\ reports[1].data["inputConfigurations"] = <<0, 0>>
    /\ state.object = ("input_configurations" :> <<128, 0>>) @@
                      ("input_actions" :> << <<0, 7, 2>>, <<1, 6, 3>> >>)

====
